---- MODULE Spec2Model ----
(***************************************************************************)
(* Model of the fabio container/codec engine:                              *)
(*   - fabio/edfimage.py : EdfImage._read_header_block, EdfFrame header    *)
(*     parsing and EdfImage._readheader (the directory pass);              *)
(*     EdfFrame._unpack and the data property (the pixel access);          *)
(*     EdfImage.read called again, getframe, next, previous,               *)
(*     append_frame, delete_frame and lazy_iterator;                       *)
(*   - fabio/cbfimage.py : the byte-offset decoders analysePython and      *)
(*     analyseNumpy;                                                       *)
(*   - fabio/openimage.py: MAGIC_NUMBERS and do_magic; openimage,          *)
(*     openimage_str and _openimage.                                       *)
(*                                                                         *)
(* A byte of an EDF source is a one-character string ("{", "\n", "S", ...);*)
(* the two bytes that have no printable form are the tokens "NUL" (0x00)   *)
(* and "xFF" (0xFF, not ASCII).  A byte of a byte-offset stream or of a    *)
(* magic prefix is its value 0..255.                                       *)
(***************************************************************************)
EXTENDS Integers, Sequences, FiniteSets, TLC

VARIABLES
    \* ---- EdfImage object and the read call in progress
    source,           \* descriptor of the byte source handed to read()
    pos,              \* infile.tell()
    frames,           \* self._frames
    incomplete_file,  \* self._incomplete_file
    currentframe,     \* self.currentframe
    value,            \* the HeaderBlockType returned by _read_header_block
    pc,               \* position of the directory pass
    raised,           \* exception that left _readheader ("" when none)
    little_endian,    \* numpy.little_endian of the host
    newframe,         \* the EdfFrame whose header is parsed step by step
    lastcall,         \* the last getframe, next or previous call and what it returned
    lazy,             \* the lazy_iterator in progress: its locals and the frames it yielded
    \* ---- byte-offset codec call
    dataIn,           \* the integer sequence the stream encodes (Null: any bytes)
    stream,           \* input bytes of the decoder
    size,             \* requested number of output values
    resPython,        \* result of analysePython
    resNumpy,         \* result of analyseNumpy
    cpc,              \* position of the codec call
    \* ---- format sniffer call
    byts,             \* the byte prefix given to do_magic
    filename,         \* the filename given to do_magic
    filetypes,        \* what do_magic returned
    mpc,              \* position of the sniffer call
    \* ---- openimage call
    call,             \* the filename argument of openimage and what it names
    attempt,          \* which openimage_str call of the dispatcher is running
    magic_bytes,      \* the bytes _openimage read from the head of the file
    objs,             \* the candidate readers _openimage returned
    result,           \* what openimage returned or raised
    opc,              \* position of the openimage call
    \* ---- pixel access on a frame of the directory
    fileenv,          \* state of the file object the frame reads its blob from
    accessed,         \* what the last data access returned or raised
    reads,            \* number of blob reads made by _unpack
    stores,           \* number of writes of _unpack to the frame's _data slot
    firstbuf,         \* the buffer the first such write stored
    ops               \* number of data operations made

edfvars   == <<source, pos, frames, incomplete_file, currentframe, value, pc, raised,
               little_endian, newframe, lastcall, lazy>>
codecvars == <<dataIn, stream, size, resPython, resNumpy, cpc>>
magicvars == <<byts, filename, filetypes, mpc>>
openvars  == <<call, attempt, magic_bytes, objs, result, opc>>
datavars  == <<fileenv, accessed, reads, stores, firstbuf, ops>>
vars      == <<edfvars, codecvars, magicvars, openvars, datavars>>

-----------------------------------------------------------------------------
(* Generic helpers *)

Min2(a, b) == IF a < b THEN a ELSE b
Max2(a, b) == IF a > b THEN a ELSE b

\* the least element of a non-empty set of integers
MinOf(S) == CHOOSE x \in S : \A y \in S : x <= y

\* n copies of the byte c
Rep(c, n) == [i \in 1..n |-> c]

\* Python slice b[lo:hi] for 0 <= lo (both ends clamped to the length)
Slice(b, lo, hi) == SubSeq(b, lo + 1, Min2(hi, Len(b)))

\* Python b[-n:]
Tail_(b, n) == SubSeq(b, Max2(1, Len(b) - n + 1), Len(b))

\* b.find(pat, from): 0-based index of the first occurrence at or after from, -1 if none
Find(b, pat, from) ==
    LET hits == {i \in from..(Len(b) - Len(pat)) : SubSeq(b, i + 1, i + Len(pat)) = pat}
    IN  IF hits = {} THEN -1 ELSE MinOf(hits)

\* bytes.strip() / str.strip(): ASCII whitespace
WHITESPACE == {" ", "\t", "\n", "\r", "\f", "VT"}

Strip(b, ws) ==
    LET keep == {i \in 1..Len(b) : b[i] \notin ws}
    IN  IF keep = {} THEN <<>>
        ELSE SubSeq(b, MinOf(keep), CHOOSE x \in keep : \A y \in keep : y <= x)

DIGITS == <<"0", "1", "2", "3", "4", "5", "6", "7", "8", "9">>

DigitVal(c) == (CHOOSE i \in 1..10 : DIGITS[i] = c) - 1

IsDigits(s) == Len(s) > 0 /\ \A i \in 1..Len(s) : \E d \in 1..10 : DIGITS[d] = s[i]

RECURSIVE DigitsVal(_)
DigitsVal(s) == IF s = <<>> THEN 0
                ELSE 10 * DigitsVal(SubSeq(s, 1, Len(s) - 1)) + DigitVal(s[Len(s)])

\* int(text): optional surrounding whitespace, optional sign, decimal digits
IntOk(s) ==
    LET t == Strip(s, WHITESPACE)
    IN  IF Len(t) > 0 /\ t[1] \in {"-", "+"} THEN IsDigits(Tail(t)) ELSE IsDigits(t)

IntVal(s) ==
    LET t == Strip(s, WHITESPACE)
    IN  IF t[1] = "-" THEN 0 - DigitsVal(Tail(t))
        ELSE IF t[1] = "+" THEN DigitsVal(Tail(t))
        ELSE DigitsVal(t)

-----------------------------------------------------------------------------
(* fabio/edfimage.py : EdfImage._read_header_block *)

BLOCKSIZE == 512
MAX_BLOCKS == 40

None == "None"

\* infile.read(n) with the stream at position p: at most n bytes, fewer at the end
FileRead(bytes, p, n) == SubSeq(bytes, p + 1, Min2(p + n, Len(bytes)))

\* HeaderBlockType(None, None, None): clean end of file, the stream stays where it is
EndOfFile(p) ==
    [kind |-> "eof", header_block |-> None, header_size |-> None,
     binary_size |-> None, pos |-> p]

\* an exception leaving _read_header_block
Raise(exc, p) ==
    [kind |-> exc, header_block |-> None, header_size |-> None,
     binary_size |-> None, pos |-> p]

EDF_HeaderSize == <<"E", "D", "F", "_", "H", "e", "a", "d", "e", "r", "S", "i", "z", "e">>

\* MAX_HEADER_SIZE after the first chunk was searched for an EDF_HeaderSize
\* declaration; -1 when block.index() finds no '=' or no ';' (ValueError)
MaxHeaderSize(block, begin_block) ==
    LET dflt  == BLOCKSIZE * MAX_BLOCKS
        start == Find(block, EDF_HeaderSize, begin_block)
        equal == Find(block, <<"=">>, start + Len(EDF_HeaderSize))
        end   == Find(block, <<";">>, equal + 1)
        chunk == Strip(Slice(block, equal + 1, end), WHITESPACE)
    IN  IF start < 0 THEN dflt
        ELSE IF equal < 0 \/ end < 0 THEN -1
        ELSE IF ~IntOk(chunk) THEN dflt
        ELSE IF IntVal(chunk) > dflt THEN IntVal(chunk)
        ELSE dflt

\* the search of the former pattern b'}[\r\n]'
EndPatternStart_AnyLineEnd(block) ==
    LET hits == {i \in 0..(Len(block) - 2) :
                    block[i + 1] = "}" /\ block[i + 2] \in {"\n", "\r"}}
    IN  IF hits = {} THEN -1 ELSE MinOf(hits)

\* end_pattern = re.compile(b'}(\r{0,1})\n'); end_pattern.search(block).start(), -1 for None
EndPatternStart(block) ==
    LET hits == {i \in 0..(Len(block) - 2) :
                    /\ block[i + 1] = "}"
                    /\ \/ block[i + 2] = "\n"
                       \/ /\ i + 3 <= Len(block)
                          /\ block[i + 2] = "\r"
                          /\ block[i + 3] = "\n"}
    IN  IF hits = {} THEN -1 ELSE MinOf(hits)

\* end_pattern.search(block).end() of the match that starts at s
EndPatternEnd(block, s) == IF block[s + 2] = "\n" THEN s + 2 ELSE s + 3

\* the values the while loop leaves behind when it breaks
Found(end_block, start_blob, offset, blocks, block_size, p) ==
    [kind |-> "found", end_block |-> end_block, start_blob |-> start_blob,
     offset |-> offset, blocks |-> blocks, block_size |-> block_size, p |-> p]

\* the end of the header pattern split over two chunks: '}' closes block and
\* nextblock opens with "\n" or "\r\n"
SplitAfterBrace(block, nextblock, block_size, blocks, p) ==
    IF Slice(nextblock, 0, 1) = <<"\n">>
    THEN Found(block_size, block_size + 1,
               (block_size + 1) - block_size - Len(nextblock), blocks, block_size, p)
    ELSE IF Slice(nextblock, 0, 2) = <<"\r", "\n">>
    THEN Found(block_size, block_size + 2,
               (block_size + 2) - block_size - Len(nextblock), blocks, block_size, p)
    ELSE [kind |-> "none"]

\* "}\r" closes block and nextblock opens with "\n"
SplitAfterReturn(block, nextblock, block_size, blocks, p) ==
    IF Slice(nextblock, 0, 1) = <<"\n">>
    THEN Found(block_size - 1, block_size + 1,
               (block_size + 1) - block_size - Len(nextblock), blocks, block_size, p)
    ELSE [kind |-> "none"]

\* the while True loop: block is the chunk under search, block_size the bytes
\* accumulated in blocks, p the stream position after the reads so far
RECURSIVE HeaderLoop(_, _, _, _, _, _)
HeaderLoop(bytes, p, block, block_size, blocks, max_header_size) ==
    LET end == EndPatternStart(block)
    IN  IF end >= 0
        THEN Found(block_size - Len(block) + end,
                   block_size - Len(block) + EndPatternEnd(block, end),
                   (block_size - Len(block) + EndPatternEnd(block, end)) - block_size,
                   blocks, block_size, p)
        ELSE
        LET nextblock == FileRead(bytes, p, BLOCKSIZE)
            p2        == p + Len(nextblock)
            split     == IF Tail_(block, 1) = <<"}">>
                         THEN SplitAfterBrace(block, nextblock, block_size, blocks, p2)
                         ELSE IF Tail_(block, 2) = <<"}", "\r">>
                         THEN SplitAfterReturn(block, nextblock, block_size, blocks, p2)
                         ELSE [kind |-> "none"]
        IN  IF split.kind = "found" THEN split
            ELSE IF Len(nextblock) = 0 \/ block_size + Len(nextblock) > max_header_size
            THEN [kind |-> "runaway", p |-> p2]
            ELSE HeaderLoop(bytes, p2, nextblock, block_size + Len(nextblock),
                            blocks \o nextblock, max_header_size)

\* block[begin_block:end_block].decode("ASCII") fails on a byte above 0x7F
IsAscii(text) == \A i \in 1..Len(text) : text[i] # "xFF"

\* EdfImage._read_header_block(infile, frame_id) with the stream at position p
ReadHeaderBlock(bytes, p) ==
    LET block       == FileRead(bytes, p, BLOCKSIZE)
        p1          == p + Len(block)
        begin_block == Find(block, <<"{">>, 0)
        max         == MaxHeaderSize(block, begin_block + 1)
        loop        == HeaderLoop(bytes, p1, block, Len(block), block, max)
        text        == Slice(loop.blocks, begin_block + 1, loop.end_block)
    IN  IF Len(block) = 0 THEN EndOfFile(p1)
        ELSE IF begin_block < 0
        THEN IF Len(block) < BLOCKSIZE /\ Strip(block, WHITESPACE) = <<>>
             THEN EndOfFile(p1)
             ELSE Raise("MalformedHeaderError", p1)
        ELSE IF Strip(Slice(block, 0, begin_block), WHITESPACE) # <<>>
        THEN Raise("MalformedHeaderError", p1)
        ELSE IF max < 0 THEN Raise("ValueError", p1)
        ELSE IF loop.kind = "runaway" THEN Raise("MalformedHeaderError", loop.p)
        ELSE IF ~IsAscii(text) THEN Raise("UnicodeDecodeError", loop.p + loop.offset)
        ELSE [kind |-> "header", header_block |-> text,
              header_size |-> loop.block_size, binary_size |-> None,
              pos |-> loop.p + loop.offset]

-----------------------------------------------------------------------------
(* fabio/edfimage.py : EdfFrame *)

\* An optional value (None or a value): <<>> is None, <<v>> is v
Null == <<>>
Some(v) == <<v>>

DATA_TYPES ==
    <<<<<<"S", "i", "g", "n", "e", "d", "B", "y", "t", "e">>, "int8">>,
      <<<<"S", "i", "g", "n", "e", "d", "8">>, "int8">>,
      <<<<"U", "n", "s", "i", "g", "n", "e", "d", "B", "y", "t", "e">>, "uint8">>,
      <<<<"U", "n", "s", "i", "g", "n", "e", "d", "8">>, "uint8">>,
      <<<<"S", "i", "g", "n", "e", "d", "S", "h", "o", "r", "t">>, "int16">>,
      <<<<"S", "i", "g", "n", "e", "d", "1", "6">>, "int16">>,
      <<<<"U", "n", "s", "i", "g", "n", "e", "d", "S", "h", "o", "r", "t">>, "uint16">>,
      <<<<"U", "n", "s", "i", "g", "n", "e", "d", "1", "6">>, "uint16">>,
      <<<<"U", "n", "s", "i", "g", "n", "e", "d", "S", "h", "o", "r", "t", "I", "n", "t", "e", "g", "e", "r">>, "uint16">>,
      <<<<"S", "i", "g", "n", "e", "d", "I", "n", "t", "e", "g", "e", "r">>, "int32">>,
      <<<<"S", "i", "g", "n", "e", "d", "3", "2">>, "int32">>,
      <<<<"U", "n", "s", "i", "g", "n", "e", "d", "I", "n", "t", "e", "g", "e", "r">>, "uint32">>,
      <<<<"U", "n", "s", "i", "g", "n", "e", "d", "3", "2">>, "uint32">>,
      <<<<"S", "i", "g", "n", "e", "d", "L", "o", "n", "g">>, "int32">>,
      <<<<"U", "n", "s", "i", "g", "n", "e", "d", "L", "o", "n", "g">>, "uint32">>,
      <<<<"S", "i", "g", "n", "e", "d", "6", "4">>, "int64">>,
      <<<<"U", "n", "s", "i", "g", "n", "e", "d", "6", "4">>, "uint64">>,
      <<<<"F", "l", "o", "a", "t", "V", "a", "l", "u", "e">>, "float32">>,
      <<<<"F", "L", "O", "A", "T", "V", "A", "L", "U", "E">>, "float32">>,
      <<<<"F", "L", "O", "A", "T">>, "float32">>,
      <<<<"F", "l", "o", "a", "t">>, "float32">>,
      <<<<"F", "l", "o", "a", "t", "I", "E", "E", "E", "3", "2">>, "float32">>,
      <<<<"F", "l", "o", "a", "t", "3", "2">>, "float32">>,
      <<<<"D", "o", "u", "b", "l", "e">>, "float64">>,
      <<<<"D", "o", "u", "b", "l", "e", "V", "a", "l", "u", "e">>, "float64">>,
      <<<<"F", "l", "o", "a", "t", "I", "E", "E", "E", "6", "4">>, "float64">>,
      <<<<"D", "o", "u", "b", "l", "e", "I", "E", "E", "E", "6", "4">>, "float64">>,
      <<<<"F", "l", "o", "a", "t", "I", "E", "E", "E", "1", "2", "8">>, "float128">>,
      <<<<"D", "o", "u", "b", "l", "e", "I", "E", "E", "E", "1", "2", "8">>, "float128">>,
      <<<<"Q", "u", "a", "d", "r", "u", "p", "l", "e", "V", "a", "l", "u", "e">>, "float128">>>>

\* numpy.dtype(bytecode).itemsize
ItemSize(dtype) ==
    CASE dtype \in {"int8", "uint8"} -> 1
      [] dtype \in {"int16", "uint16"} -> 2
      [] dtype \in {"int32", "uint32", "float32"} -> 4
      [] dtype \in {"int64", "uint64", "float64"} -> 8
      [] dtype = "float128" -> 16

LOWERCASE == <<"a", "b", "c", "d", "e", "f", "g", "h", "i", "j", "k", "l", "m",
               "n", "o", "p", "q", "r", "s", "t", "u", "v", "w", "x", "y", "z">>
UPPERCASE == <<"A", "B", "C", "D", "E", "F", "G", "H", "I", "J", "K", "L", "M",
               "N", "O", "P", "Q", "R", "S", "T", "U", "V", "W", "X", "Y", "Z">>

\* str.upper()
Upper(s) ==
    [i \in 1..Len(s) |->
        IF \E k \in 1..26 : LOWERCASE[k] = s[i]
        THEN UPPERCASE[CHOOSE k \in 1..26 : LOWERCASE[k] = s[i]]
        ELSE s[i]]

\* "sub in s" for strings
Contains(s, sub) == Find(s, sub, 0) >= 0

\* An (ordered) dict is a sequence of <<key, value>> pairs with distinct keys,
\* in insertion order.
DictHas(d, k) == \E i \in 1..Len(d) : d[i][1] = k
DictGet(d, k) == d[CHOOSE i \in 1..Len(d) : d[i][1] = k][2]
\* d[k] = v of a dict that moves a key set again to the end
DictSet_MoveToEnd(d, k, v) ==
    LET keep == {i \in 1..Len(d) : d[i][1] # k}
        RECURSIVE Kept(_)
        Kept(i) == IF i > Len(d) THEN <<>>
                   ELSE (IF i \in keep THEN <<d[i]>> ELSE <<>>) \o Kept(i + 1)
    IN  Append(Kept(1), <<k, v>>)

\* d[k] = v: a new key goes to the end, a known key keeps its place
DictSet(d, k, v) ==
    IF DictHas(d, k)
    THEN [i \in 1..Len(d) |-> IF d[i][1] = k THEN <<k, v>> ELSE d[i]]
    ELSE Append(d, <<k, v>>)

\* text.split(sep) for a one-byte separator
SplitOn(text, sep) ==
    LET cuts == {i \in 1..Len(text) : text[i] = sep}
        RECURSIVE Pieces(_, _)
        Pieces(from, rest) ==
            IF rest = {} THEN <<SubSeq(text, from, Len(text))>>
            ELSE LET c == MinOf(rest)
                 IN  <<SubSeq(text, from, c - 1)>> \o Pieces(c + 1, rest \ {c})
    IN  Pieces(1, cuts)

\* whitespace = string.whitespace + "\x00"
HEADER_WHITESPACE == WHITESPACE \cup {"NUL"}

\* the first loop of _create_header: lines[1..n] folded into the OrderedDict
RECURSIVE HeaderOfLines(_, _)
HeaderOfLines(lines, n) ==
    IF n = 0 THEN <<>>
    ELSE LET line  == lines[n]
             eq    == Find(line, <<"=">>, 0)
             key   == Strip(Slice(line, 0, eq), HEADER_WHITESPACE)
             val   == Strip(Slice(line, eq + 1, Len(line)), HEADER_WHITESPACE)
             sofar == HeaderOfLines(lines, n - 1)
         IN  IF eq >= 0 THEN DictSet(sofar, key, val) ELSE sofar

\* the second loop of _create_header: capsHeader[key.upper()] = key over header[1..n]
RECURSIVE CapsOfHeader(_, _)
CapsOfHeader(header, n) ==
    IF n = 0 THEN <<>>
    ELSE DictSet(CapsOfHeader(header, n - 1), Upper(header[n][1]), header[n][1])

\* EdfFrame._create_header(header_block): self.header and the returned capsHeader
CreateHeader(header_block) ==
    LET lines  == SplitOn(header_block, ";")
        header == HeaderOfLines(lines, Len(lines))
    IN  [header |-> header, capsHeader |-> CapsOfHeader(header, Len(header))]

\* EdfFrame._compute_capsheader: the first key seen for an upper-case key stays
RECURSIVE ComputeCapsHeader(_, _)
ComputeCapsHeader(header, n) ==
    IF n = 0 THEN <<>>
    ELSE LET sofar == ComputeCapsHeader(header, n - 1)
             upper == Upper(header[n][1])
         IN  IF DictHas(sofar, upper) THEN sofar ELSE Append(sofar, <<upper, header[n][1]>>)

\* fabioutils.nice_int(s): int(s); ValueError when the text is no integer
NiceIntOk(s) == IntOk(s)
NiceInt(s) == IntVal(s)

K_SIZE == <<"S", "I", "Z", "E">>
K_DATATYPE == <<"D", "A", "T", "A", "T", "Y", "P", "E">>
K_COMPRESSION == <<"C", "O", "M", "P", "R", "E", "S", "S", "I", "O", "N">>
K_BYTEORDER == <<"B", "Y", "T", "E", "O", "R", "D", "E", "R">>
K_DIM == <<"D", "I", "M", "_">>
K_HEADERID == <<"H", "E", "A", "D", "E", "R", "I", "D">>
K_IMAGE == <<"I", "M", "A", "G", "E">>
K_DIM_1 == <<"D", "I", "M", "_", "1">>
K_DIM_2 == <<"D", "I", "M", "_", "2">>
K_NONE == <<"N", "O", "N", "E">>
K_NO == <<"N", "O">>
K_Low == <<"L", "o", "w">>
K_High == <<"H", "i", "g", "h">>

\* str(n) for n >= 0
RECURSIVE DecStr(_)
DecStr(n) == IF n < 10 THEN <<DIGITS[n + 1]>>
             ELSE DecStr(n \div 10) \o <<DIGITS[(n % 10) + 1]>>

\* the loop of EdfFrame.get_data_rank over capsHeader[i..]: index is the local
\* variable of that name (Null while unbound), rank the highest index so far
RECURSIVE RankLoop(_, _, _, _)
RankLoop(capsHeader, i, index, rank) ==
    IF i > Len(capsHeader) THEN [exc |-> "", rank |-> rank]
    ELSE LET key  == capsHeader[i][1]
             text == Slice(key, 4, Len(key))
             idx  == IF IntOk(text) THEN Some(IntVal(text)) ELSE index
         IN  IF Slice(key, 0, 4) # K_DIM THEN RankLoop(capsHeader, i + 1, index, rank)
             ELSE IF idx = Null THEN [exc |-> "UnboundLocalError", rank |-> rank]
             ELSE RankLoop(capsHeader, i + 1, idx, Max2(rank, idx[1]))

\* EdfFrame.get_data_rank(header, capsHeader)
GetDataRank(capsHeader) == RankLoop(capsHeader, 1, Null, 0)

\* the loop of EdfFrame.get_data_shape from irank on: dimi is the local variable
\* of that name (Null while unbound)
RECURSIVE ShapeLoop(_, _, _, _, _, _)
ShapeLoop(rank, header, capsHeader, irank, dimi, shape) ==
    IF irank > rank THEN [exc |-> "", shape |-> shape]
    ELSE LET strDim == K_DIM \o DecStr(irank)
             text   == DictGet(header, DictGet(capsHeader, strDim))
             d      == IF DictHas(capsHeader, strDim)
                       THEN IF NiceIntOk(text) THEN Some(NiceInt(text)) ELSE dimi
                       ELSE IF irank = 1 THEN Some(0) ELSE Some(1)
         IN  IF d = Null THEN [exc |-> "UnboundLocalError", shape |-> shape]
             ELSE ShapeLoop(rank, header, capsHeader, irank + 1, d, <<d[1]>> \o shape)

\* EdfFrame.get_data_shape(rank, header, capsHeader)
GetDataShape(rank, header, capsHeader) == ShapeLoop(rank, header, capsHeader, 1, Null, <<>>)

\* EdfFrame.get_data_counts(shape)
RECURSIVE GetDataCounts(_)
GetDataCounts(shape) == IF shape = <<>> THEN 1 ELSE Head(shape) * GetDataCounts(Tail(shape))

\* DATA_TYPES[name]: Null stands for the KeyError of an unknown name
DataTypeOf(name) ==
    IF \E i \in 1..Len(DATA_TYPES) : DATA_TYPES[i][1] = name
    THEN Some(DATA_TYPES[CHOOSE i \in 1..Len(DATA_TYPES) : DATA_TYPES[i][1] = name][2])
    ELSE Null

\* EdfFrame.__init__: the fields of a new frame
EdfFrame(index) ==
    [index |-> index, header |-> <<>>, start |-> Null, blobsize |-> Null,
     size |-> Null, shape |-> Null, dtype |-> Null, compression |-> Null,
     swap_needed |-> Null, incomplete_data |-> FALSE, data |-> Null, file |-> Null]

\* self._data_compression as _extract_header_metadata sets it
CompressionOf(header, capsHeader) ==
    LET c == Upper(DictGet(header, DictGet(capsHeader, K_COMPRESSION)))
    IN  IF ~DictHas(capsHeader, K_COMPRESSION) THEN Null
        ELSE IF c = K_NONE THEN Null
        ELSE IF Slice(c, 0, 2) = K_NO THEN Null
        ELSE Some(c)

\* the swap flag that does not look at the width of an element
SwapNeeded_AnyWidth(before, byte_order, bpp, host_le) ==
    LET low  == Contains(byte_order, K_Low)
        high == Contains(byte_order, K_High)
    IN  IF (high /\ host_le) \/ (low /\ ~host_le) THEN Some(TRUE)
        ELSE IF (low /\ host_le) \/ (high /\ ~host_le) THEN Some(FALSE)
        ELSE before

\* self._data_swap_needed as _extract_header_metadata sets it
SwapNeeded(before, byte_order, bpp, host_le) ==
    LET low    == Contains(byte_order, K_Low)
        high   == Contains(byte_order, K_High)
        first  == IF (low /\ host_le) \/ (high /\ ~host_le)
                  THEN Some(FALSE) ELSE before
    IN  IF (high /\ host_le) \/ (low /\ ~host_le)
        THEN Some(bpp \in {2, 4, 8})
        ELSE first

\* EdfFrame._extract_header_metadata(capsHeader): the exception it raises ("" for
\* none) and the frame it leaves
ExtractHeaderMetadata(frame, capsHeader, host_le) ==
    LET header   == frame.header
        sizetext == DictGet(header, DictGet(capsHeader, K_SIZE))
        blobsize == IF DictHas(capsHeader, K_SIZE) /\ NiceIntOk(sizetext)
                    THEN Some(NiceInt(sizetext)) ELSE Null
        rank     == GetDataRank(capsHeader)
        shape    == GetDataShape(rank.rank, header, capsHeader)
        counts   == GetDataCounts(shape.shape)
        dtype    == IF frame.dtype # Null THEN frame.dtype
                    ELSE IF DictHas(capsHeader, K_DATATYPE)
                    THEN DataTypeOf(DictGet(header, DictGet(capsHeader, K_DATATYPE)))
                    ELSE Some("uint16")
        compr    == CompressionOf(header, capsHeader)
        bpp      == ItemSize(dtype[1])
        calcsize == counts * bpp
        order    == DictGet(header, DictGet(capsHeader, K_BYTEORDER))
    IN  IF rank.exc # "" THEN [exc |-> rank.exc, frame |-> frame]
        ELSE IF shape.exc # "" THEN [exc |-> shape.exc, frame |-> frame]
        ELSE IF dtype = Null THEN [exc |-> "KeyError", frame |-> frame]
        ELSE IF ~DictHas(capsHeader, K_BYTEORDER) THEN [exc |-> "KeyError", frame |-> frame]
        ELSE [exc |-> "",
              frame |-> [frame EXCEPT
                  !.blobsize = IF blobsize = Null /\ compr = Null
                               THEN Some(calcsize) ELSE blobsize,
                  !.shape = Some(shape.shape),
                  !.dtype = dtype,
                  !.compression = compr,
                  !.size = IF frame.size = Null THEN Some(calcsize) ELSE frame.size,
                  !.swap_needed = SwapNeeded(frame.swap_needed, order, bpp, host_le)]]

MINIMUM_KEYS == {K_HEADERID, K_IMAGE, K_BYTEORDER, K_DATATYPE, K_DIM_1, K_DIM_2, K_SIZE}

\* EdfFrame._check_header_mandatory_keys: the keys it logs as missing
MissingMandatoryKeys(header) ==
    MINIMUM_KEYS \ {Upper(header[i][1]) : i \in 1..Len(header)}

-----------------------------------------------------------------------------
(* Byte sources.  A source is described by its frames; the bytes are built  *)
(* from the description, so that every case is a byte sequence the reader   *)
(* scans chunk by chunk.                                                    *)

MaxLead == 2      \* whitespace bytes before '{': shifts the header over the chunks
MaxFrames == 2    \* frames of a source

\* the key = value; declarations a frame description selects
FieldText(field, choice) ==
    CASE field = "bo" /\ choice = "low"   -> <<"B", "y", "t", "e", "O", "r", "d", "e", "r", "=", "L", "o", "w", "B", "y", "t", "e", "F", "i", "r", "s", "t", ";">>
      [] field = "bo" /\ choice = "high"  -> <<"B", "y", "t", "e", "O", "r", "d", "e", "r", "=", "H", "i", "g", "h", "B", "y", "t", "e", "F", "i", "r", "s", "t", ";">>
      [] field = "dt" /\ choice = "u8"    -> <<"D", "a", "t", "a", "T", "y", "p", "e", "=", "U", "n", "s", "i", "g", "n", "e", "d", "B", "y", "t", "e", ";">>
      [] field = "dt" /\ choice = "s16"   -> <<"D", "a", "t", "a", "T", "y", "p", "e", "=", "S", "i", "g", "n", "e", "d", "S", "h", "o", "r", "t", ";">>
      [] field = "dt" /\ choice = "bad"   -> <<"D", "a", "t", "a", "T", "y", "p", "e", "=", "F", "o", "o", ";">>
      [] field = "dim" /\ choice = "2x2"  -> <<"D", "i", "m", "_", "1", "=", "2", ";", "D", "i", "m", "_", "2", "=", "2", ";">>
      [] field = "size" /\ choice = "4"   -> <<"S", "i", "z", "e", "=", "4", ";">>
      [] field = "dim" /\ choice = "row"  -> <<"D", "i", "m", "_", "1", "=", "4", ";">>
      [] field = "size" /\ choice = "neg" -> <<"S", "i", "z", "e", "=", "-", "5", ";">>
      [] field = "size" /\ choice = "back" -> <<"S", "i", "z", "e", "=", "-", "7", "3", ";">>
      [] field = "size" /\ choice = "dup" -> <<"S", "i", "z", "e", "=", "4", ";", "S", "I", "Z", "E", "=", "3", ";">>
      [] field = "size" /\ choice = "bad" -> <<"S", "i", "z", "e", "=", "x", ";">>
      [] field = "comp" /\ choice = "gzip" -> <<"C", "o", "m", "p", "r", "e", "s", "s", "i", "o", "n", "=", "G", "Z", "I", "P", ";">>
      [] field = "comp" /\ choice = "foo" -> <<"C", "o", "m", "p", "r", "e", "s", "s", "i", "o", "n", "=", "F", "o", "o", ";">>
      [] field = "comp" /\ choice = "offset" -> <<"C", "o", "m", "p", "r", "e", "s", "s", "i", "o", "n", "=", "B", "y", "t", "e", "O", "f", "f", "s", "e", "t", ";">>
      [] field = "hs" /\ choice = "odd"   -> <<"E", "D", "F", "_", "H", "e", "a", "d", "e", "r", "S", "i", "z", "e", "=", "2", "0", "4", "9", "0", ";">>
      [] field = "hs" /\ choice = "big"   -> <<"E", "D", "F", "_", "H", "e", "a", "d", "e", "r", "S", "i", "z", "e", "=", "3", "0", "0", "0", "0", ";">>
      [] field = "hs" /\ choice = "bad"   -> <<"E", "D", "F", "_", "H", "e", "a", "d", "e", "r", "S", "i", "z", "e", "=", "x", ";">>
      [] field = "hs" /\ choice = "noeq"  -> <<"E", "D", "F", "_", "H", "e", "a", "d", "e", "r", "S", "i", "z", "e", ";">>
      [] OTHER -> <<>>

\* the text between '{' and the padding
BodyText(d) ==
    LET all == FieldText("bo", d.bo) \o FieldText("dt", d.dt) \o FieldText("dim", d.dim)
               \o FieldText("size", d.size) \o FieldText("comp", d.comp)
               \o FieldText("hs", d.hs)
    IN  IF d.semi \/ all = <<>> THEN all ELSE SubSeq(all, 1, Len(all) - 1)

\* spaces between the text and the closing brace: "chunk" puts the brace three
\* bytes before the end of the first chunk when nothing precedes '{', "runaway"
\* puts it beyond the maximum header size, "beyond" makes "}\n" end ten bytes
\* after BLOCKSIZE * MAX_BLOCKS when nothing precedes '{'
PadLen(d) ==
    CASE d.pad = "none"    -> 0
      [] d.pad = "chunk"   -> BLOCKSIZE - 3 - 1 - Len(BodyText(d))
      [] d.pad = "runaway" -> BLOCKSIZE * MAX_BLOCKS
      [] d.pad = "beyond"  -> BLOCKSIZE * MAX_BLOCKS + 10 - 3 - Len(BodyText(d))

TermText(term) ==
    CASE term = "n"    -> <<"}", "\n">>
      [] term = "rn"   -> <<"}", "\r", "\n">>
      [] term = "r"    -> <<"}", "\r">>
      [] term = "late" -> <<"}", "\r", " ", "}", "\n">>
      [] term = "none" -> <<>>

\* the header text a reader should hand out for d
HeaderText(d) == BodyText(d) \o Rep(" ", PadLen(d))

\* the bytes in front of the blob of d
HeaderBytes(d) ==
    (IF d.junk THEN <<"K">> ELSE <<>>) \o Rep("\n", d.lead) \o <<"{">>
    \o HeaderText(d) \o TermText(d.term)

\* the first n bytes of a blob
BlobBytes(n) == SubSeq(<<"a", "b", "c", "d">>, 1, n)

FrameBytes(d) == HeaderBytes(d) \o BlobBytes(d.blob)

RECURSIVE FramesBytes(_)
FramesBytes(ds) == IF ds = <<>> THEN <<>> ELSE FrameBytes(Head(ds)) \o FramesBytes(Tail(ds))

\* the bytes of a source: its frames, then trail line feeds
Bytes(src) == FramesBytes(src.frames) \o Rep("\n", src.trail)

\* a well-formed frame: 2 x 2 unsigned bytes, 4 bytes of data
Default ==
    [junk |-> FALSE, lead |-> 0, hs |-> "none", bo |-> "low", dt |-> "u8",
     dim |-> "2x2", size |-> "4", comp |-> "none", semi |-> TRUE,
     pad |-> "none", term |-> "n", blob |-> 4]

\* headers that differ in where the end of the header falls in the chunks
AlignCases ==
    {[Default EXCEPT !.lead = l, !.pad = p, !.term = t, !.semi = s] :
        l \in 0..MaxLead, p \in {"none", "chunk"}, t \in {"n", "rn", "r", "none"},
        s \in BOOLEAN}
    \cup {[Default EXCEPT !.pad = "runaway", !.hs = h] : h \in {"none", "big"}}
    \cup {[Default EXCEPT !.junk = TRUE, !.lead = l] : l \in 0..1}

\* headers that differ from the well-formed one in one declaration, and blobs
\* that are complete, one byte short, or missing
ContentCases ==
    {[Default EXCEPT !.bo = b, !.blob = n] : b \in {"high", "none"}, n \in {4, 3, 0}}
    \cup {[Default EXCEPT !.dt = t, !.blob = n] : t \in {"s16", "bad", "none"}, n \in {4, 3, 0}}
    \cup {[Default EXCEPT !.dim = "none", !.blob = n] : n \in {4, 1, 0}}
    \cup {[Default EXCEPT !.size = z, !.comp = c, !.blob = n] :
            z \in {"4", "bad", "none"}, c \in {"none", "gzip"}, n \in {4, 3, 0}}
    \cup {[Default EXCEPT !.hs = h, !.semi = s, !.term = t] :
            h \in {"big", "bad", "noeq"}, s \in BOOLEAN, t \in {"n", "none"}}

\* headers with a key written twice in two cases, a negative size, one
\* dimension, a compression of no decoder, a "}\r" before the terminator, a
\* header of 20490 bytes that declares no EDF_HeaderSize, 20490 or 30000, and a
\* header of 73 bytes after a line feed that declares the size -73
EdgeCases ==
    {[Default EXCEPT !.size = z] : z \in {"dup", "neg"}}
    \cup {[Default EXCEPT !.size = "back", !.lead = 1]}
    \cup {[Default EXCEPT !.dim = "row"], [Default EXCEPT !.comp = "foo"]}
    \cup {[Default EXCEPT !.term = "late", !.lead = l, !.pad = p] :
            l \in 0..MaxLead, p \in {"none", "chunk"}}
    \cup {[Default EXCEPT !.pad = "beyond", !.hs = h] : h \in {"none", "odd", "big"}}

FrameCases == AlignCases \cup ContentCases \cup EdgeCases

\* the frames that may precede the last one
LeadingFrames ==
    {Default, [Default EXCEPT !.lead = 2, !.pad = "chunk"],
     [Default EXCEPT !.blob = 3]}

RECURSIVE LeadingSeqs(_)
LeadingSeqs(n) ==
    IF n = 0 THEN {<<>>}
    ELSE LeadingSeqs(n - 1)
         \cup {Append(q, f) : q \in {x \in LeadingSeqs(n - 1) : Len(x) = n - 1},
                              f \in LeadingFrames}

Sources ==
    {[frames |-> <<>>, trail |-> t] : t \in 0..1}
    \cup {[frames |-> Append(q, d), trail |-> 0] :
            q \in LeadingSeqs(MaxFrames - 1), d \in FrameCases}
    \cup {[frames |-> Append(q, d), trail |-> 1] :
            q \in LeadingSeqs(MaxFrames - 1), d \in LeadingFrames}

-----------------------------------------------------------------------------
(* fabio/edfimage.py : EdfImage.__init__, EdfImage.read, EdfImage._readheader *)

\* no codec call and no sniffer call is in progress
CodecIdle ==
    /\ dataIn = Null /\ stream = <<>> /\ size = 0
    /\ resPython = Null /\ resNumpy = Null /\ cpc = "off"
MagicIdle == byts = <<>> /\ filename = <<>> /\ filetypes = Null /\ mpc = "off"
\* the file object of read(): an ordinary file, open, or a GzipFile whose
\* compressed stream is cut where the bytes of the source end; byte_offset says
\* whether the byte_offset module can be imported
PlainFile == [closed |-> FALSE, gz |-> FALSE, byte_offset |-> FALSE]

\* no openimage call and no pixel access is in progress
OpenIdle ==
    /\ call = Null /\ attempt = 0 /\ magic_bytes = <<>> /\ objs = <<>>
    /\ result = Null /\ opc = "off"
DataIdle ==
    /\ fileenv = PlainFile /\ accessed = Null /\ reads = 0 /\ stores = 0
    /\ firstbuf = Null /\ ops = 0

\* EdfImage(): an object that has read nothing yet
EdfInit ==
    /\ source = [frames |-> <<>>, trail |-> 0]
    /\ pos = 0
    /\ frames = <<EdfFrame(0)>>
    /\ incomplete_file = FALSE
    /\ currentframe = 0
    /\ value = Null
    /\ pc = "idle"
    /\ raised = ""
    /\ little_endian \in BOOLEAN
    /\ newframe = Null
    /\ lastcall = Null
    /\ lazy = Null

Init == EdfInit /\ CodecIdle /\ MagicIdle /\ OpenIdle /\ DataIdle

\* read(fname): opens the source and enters _readheader, which empties self._frames
Read(src) ==
    /\ pc = "idle"
    /\ source' = src
    /\ pos' = 0
    /\ frames' = <<>>
    /\ value' = Null
    /\ pc' = "ReadingHeader"
    /\ raised' = ""
    /\ UNCHANGED <<incomplete_file, currentframe, little_endian, newframe, lastcall, lazy>>

\* the loop of _readheader is left: self.currentframe = 0
PassDone ==
    /\ pc' = "done"
    /\ currentframe' = 0

\* an exception leaves _readheader and read()
PassRaises(exc) ==
    /\ pc' = "raised"
    /\ raised' = exc

\* _readheader, top of the loop: value = self._read_header_block(infile, len(self._frames))
ReadingHeader ==
    /\ pc = "ReadingHeader"
    /\ LET v == ReadHeaderBlock(Bytes(source), pos)
       IN  /\ pos' = v.pos
           /\ value' = v
           /\ CASE v.kind = "MalformedHeaderError" ->
                     IF Len(frames) = 0
                     THEN PassRaises("IOError")
                          /\ UNCHANGED <<incomplete_file, currentframe>>
                     ELSE PassDone /\ incomplete_file' = TRUE /\ UNCHANGED raised
                [] v.kind = "eof" ->
                     IF Len(frames) = 0
                     THEN PassRaises("IOError")
                          /\ UNCHANGED <<incomplete_file, currentframe>>
                     ELSE PassDone /\ UNCHANGED <<incomplete_file, raised>>
                [] v.kind = "header" ->
                     /\ pc' = "HaveHeader"
                     /\ UNCHANGED <<incomplete_file, currentframe, raised>>
                [] OTHER ->
                     PassRaises(v.kind) /\ UNCHANGED <<incomplete_file, currentframe>>
    /\ UNCHANGED <<source, frames, little_endian, newframe, lastcall, lazy>>

MaxAppended == 4   \* frames of a directory: a pass that would append more stops here

\* frame.blobsize as _readheader sets it before _extract_header_metadata
DeclaredBlobSize(header, capsHeader) ==
    LET text == DictGet(header, DictGet(capsHeader, K_SIZE))
    IN  IF DictHas(capsHeader, K_SIZE) /\ NiceIntOk(text) THEN Some(NiceInt(text)) ELSE Null

\* the frame of _readheader when it calls _extract_header_metadata
FrameWithHeader(index, header_block, start) ==
    LET h == CreateHeader(header_block)
    IN  [EdfFrame(index) EXCEPT
            !.file = Some("infile"),
            !.header = h.header,
            !.blobsize = DeclaredBlobSize(h.header, h.capsHeader),
            !.start = Some(start)]

\* the frame _readheader builds from a header block, and the exception raised
\* on the way ("" for none)
NewFrame(index, header_block, start, host_le) ==
    ExtractHeaderMetadata(FrameWithHeader(index, header_block, start),
                          CreateHeader(header_block).capsHeader, host_le)

\* _readheader, a header block was read: the frame is built and appended
HaveHeader ==
    /\ pc = "HaveHeader"
    /\ Len(frames) < MaxAppended
    /\ LET r == NewFrame(Len(frames), value.header_block, pos, little_endian)
       IN  IF r.exc # ""
           THEN PassRaises(r.exc) /\ UNCHANGED frames
           ELSE /\ frames' = Append(frames, r.frame)
                /\ pc' = "SkippingBlob"
                /\ UNCHANGED raised
    /\ UNCHANGED <<source, pos, incomplete_file, currentframe, value, little_endian, newframe, lastcall, lazy>>

\* TruncatedBlob that forgets to flag the frame whose blob is cut short
TruncatedBlobFrameUnflagged(target) ==
    /\ PassDone
    /\ incomplete_file' = TRUE
    /\ pos' = target
    /\ UNCHANGED <<frames, raised>>

\* TruncatedBlob that treats a cut short blob of the first frame as an error
TruncatedBlobFirstFatal(target) ==
    IF Len(frames) = 1
    THEN PassRaises("IOError") /\ UNCHANGED <<pos, frames, incomplete_file, currentframe>>
    ELSE /\ PassDone
         /\ incomplete_file' = TRUE
         /\ frames' = [frames EXCEPT ![Len(frames)].incomplete_data = TRUE]
         /\ pos' = target
         /\ UNCHANGED raised

\* _readheader, the read after the seek returned nothing: the blob is cut short
TruncatedBlob(target) ==
    /\ PassDone
    /\ incomplete_file' = TRUE
    /\ frames' = [frames EXCEPT ![Len(frames)].incomplete_data = TRUE]
    /\ pos' = target
    /\ UNCHANGED raised

\* _readheader, the data block is skipped: infile.seek(frame.blobsize - 1, os.SEEK_CUR)
\* and infile.read(1)
SkippingBlob ==
    /\ pc = "SkippingBlob"
    /\ LET frame  == frames[Len(frames)]
           target == pos + frame.blobsize[1] - 1
           data   == FileRead(Bytes(source), target, 1)
       IN  IF frame.blobsize = Null \/ target < 0
           THEN PassRaises("Exception")
                /\ UNCHANGED <<pos, frames, incomplete_file, currentframe>>
           ELSE IF Len(data) = 0
           THEN TruncatedBlob(target)
           ELSE IF fileenv.gz /\ target + 1 > Len(Bytes(source))
           THEN TruncatedBlob(target)
           ELSE /\ pos' = target + 1
                /\ pc' = "ReadingHeader"
                /\ UNCHANGED <<frames, incomplete_file, currentframe, raised>>
    /\ UNCHANGED <<source, value, little_endian, newframe, lastcall, lazy>>

Next ==
    \/ (\E src \in Sources : Read(src)) /\ UNCHANGED <<codecvars, magicvars, openvars, datavars>>
    \/ ReadingHeader /\ UNCHANGED <<codecvars, magicvars, openvars, datavars>>
    \/ HaveHeader /\ UNCHANGED <<codecvars, magicvars, openvars, datavars>>
    \/ SkippingBlob /\ UNCHANGED <<codecvars, magicvars, openvars, datavars>>

Spec == Init /\ [][Next]_vars

-----------------------------------------------------------------------------
(* Properties of the directory pass *)

\* the pass has ended, by leaving the loop or by an exception
PassEnded == pc \in {"done", "raised"}

\* the closing brace of the first header is the last byte of the first chunk
\* and the line feed the first byte of the second
TerminatorSplit(d) == d.term = "n" /\ Len(HeaderBytes(d)) = BLOCKSIZE + 1

\* the end of the first header lies inside the first chunk
TerminatorInside(d) == d.term = "n" /\ Len(HeaderBytes(d)) <= BLOCKSIZE

\* a header the reader can hand out and a frame can be built from
HeaderUsable(d) ==
    /\ ~d.junk /\ d.term \in {"n", "rn"} /\ d.pad \in {"none", "chunk"} /\ d.hs = "none"
    /\ d.bo # "none" /\ d.dt \in {"u8", "s16"} /\ d.dim = "2x2" /\ d.comp = "none"

\* a frame with a usable header that declares its size and has all of its blob
ValidComplete(d) == HeaderUsable(d) /\ d.size = "4" /\ d.blob = 4

\* a frame with a usable header whose declared size exceeds the bytes that follow
DeclaredTruncated(d) == HeaderUsable(d) /\ d.size = "4" /\ d.blob < 4

\* C1: _read_header_block returns the same header text, hence the same parsed
\* metadata, and the same blob start relative to the header, when "}" ends the
\* first chunk and "\n" opens the second as when "}\n" lies inside the first chunk
C1_SplitTerminatorSameHeader ==
    (pc = "HaveHeader" /\ Len(frames) = 0 /\ TerminatorSplit(source.frames[1])) =>
        \A e \in FrameCases :
            (TerminatorInside(e) /\ HeaderText(e) = HeaderText(source.frames[1])) =>
                LET inside == ReadHeaderBlock(FrameBytes(e), 0)
                IN  /\ inside.kind = "header"
                    /\ value.header_block = inside.header_block
                    /\ CreateHeader(value.header_block) = CreateHeader(inside.header_block)
                    /\ value.pos - Len(HeaderBytes(source.frames[1]))
                         = inside.pos - Len(HeaderBytes(e))

\* C2: a valid complete first frame followed by a second frame whose declared
\* blob size exceeds the remaining bytes: the pass does not raise, sets
\* incomplete_file and yields exactly one frame that is not flagged
\* incomplete_data, the truncated second frame being the flagged one
C2_TruncatedSecondFrame ==
    (/\ PassEnded
     /\ Len(source.frames) = 2 /\ source.trail = 0
     /\ ValidComplete(source.frames[1])
     /\ DeclaredTruncated(source.frames[2])) =>
        /\ pc = "done" /\ raised = ""
        /\ incomplete_file
        /\ Len(frames) = 2
        /\ {i \in 1..Len(frames) : ~frames[i].incomplete_data} = {1}
        /\ frames[1].blobsize = Some(4) /\ frames[1].shape = Some(<<2, 2>>)

C2_Witness ==
    /\ pc = "done" /\ Len(source.frames) = 2 /\ source.trail = 0
    /\ ValidComplete(source.frames[1])
    /\ DeclaredTruncated(source.frames[2])
    /\ source.frames[2].blob = 3
    /\ frames[2].incomplete_data

\* a source whose first header is unusable: no bytes at all, bytes other than
\* whitespace before the first "{", or a "{" that no terminator follows
FirstHeaderUnusable ==
    \/ source.frames = <<>> /\ source.trail = 0
    \/ Len(source.frames) = 1 /\ source.frames[1].junk
    \/ Len(source.frames) = 1 /\ source.frames[1].term \in {"none", "r"}

\* C3: a source whose first header is unusable makes the read raise IOError and
\* never end with only the incomplete flag set
C3_UnusableFirstHeaderIOError ==
    (PassEnded /\ FirstHeaderUnusable) => (pc = "raised" /\ raised = "IOError")

\* a header the reader fails on or a frame cannot be built from: malformed or
\* runaway, an EDF_HeaderSize declaration without value, a missing ByteOrder, an
\* unknown DataType
HeaderDefect(d) ==
    \/ d.junk \/ d.term \in {"none", "r"} \/ d.pad = "runaway"
    \/ d.hs = "noeq" \/ d.bo = "none" \/ d.dt = "bad"

\* C4: a failure to read or interpret the header of a frame of index >= 1 ends
\* the pass with incomplete_file set and without an exception, the frames
\* collected before it staying in place
C4_LaterHeaderFailureFlagged ==
    (/\ PassEnded
     /\ Len(source.frames) = 2 /\ source.trail = 0
     /\ ValidComplete(source.frames[1])
     /\ HeaderDefect(source.frames[2])) =>
        /\ pc = "done" /\ raised = ""
        /\ incomplete_file
        /\ Len(frames) = 1
        /\ ~frames[1].incomplete_data

\* C5 as stated: a cut short blob is flagged for every frame but the first,
\* for the first frame the read fails
C5_FirstFrameTruncationFatal ==
    (/\ PassEnded
     /\ Len(source.frames) = 1 /\ source.trail = 0
     /\ DeclaredTruncated(source.frames[1])) =>
        (pc = "raised" /\ ~incomplete_file)

\* C5 amended: a cut short blob is flagged and not raised for every frame, the
\* first included: the step that finds fewer bytes than the blob size of the
\* frame ends the pass with incomplete_file and the frame's incomplete_data set
C5_TruncationFlaggedEveryFrame ==
    [][(/\ pc = "SkippingBlob"
        /\ frames[Len(frames)].blobsize # Null
        /\ frames[Len(frames)].blobsize[1] >= 1
        /\ pos + frames[Len(frames)].blobsize[1] > Len(Bytes(source))) =>
           (/\ pc' = "done" /\ raised' = ""
            /\ incomplete_file'
            /\ Len(frames') = Len(frames)
            /\ frames'[Len(frames)].incomplete_data
            /\ \A i \in 1..(Len(frames) - 1) : frames'[i] = frames[i])]_vars

C5_Witness ==
    /\ pc = "done" /\ Len(source.frames) = 1
    /\ DeclaredTruncated(source.frames[1])
    /\ Len(frames) = 1 /\ frames[1].incomplete_data /\ incomplete_file

\* a usable header that lacks one of the required keys
LacksRequiredKey(d) ==
    /\ ~d.junk /\ d.term \in {"n", "rn"} /\ d.pad \in {"none", "chunk"} /\ d.hs = "none"
    /\ d.comp = "none" /\ d.dt # "bad" /\ d.size # "bad"
    /\ (d.size = "none" \/ d.bo = "none" \/ d.dt = "none" \/ d.dim = "none")

\* C6: a frame header that lacks a required key (size, byte order, element
\* type, dimension) never aborts the read: the pass completes without raising
C6_MissingKeyNeverAborts ==
    (PassEnded /\ Len(source.frames) = 1 /\ LacksRequiredKey(source.frames[1])) =>
        (pc = "done" /\ raised = "" /\ Len(frames) = 1)

\* the frame _readheader would build from the header of f if every lookup went
\* through the first key seen for each upper-case key
FirstSeenFrame(f, host_le) ==
    LET caps == ComputeCapsHeader(f.header, Len(f.header))
    IN  ExtractHeaderMetadata(
            [EdfFrame(f.index) EXCEPT !.file = f.file,
                                      !.header = f.header,
                                      !.blobsize = DeclaredBlobSize(f.header, caps),
                                      !.start = f.start],
            caps, host_le)

\* some upper-case key of the header of d stands for two keys
TwoKeysOneCase(d) == d.size = "dup"

\* C13: when two keys of a header are equal ignoring case, the blob size, the
\* dimensions, the element type, the byte order and the compression of the
\* frame are those read under the first of the two keys
C13_FirstSeenKeyDecides ==
    (pc = "SkippingBlob" /\ TwoKeysOneCase(source.frames[Len(frames)])) =>
        /\ FirstSeenFrame(frames[Len(frames)], little_endian).exc = ""
        /\ FirstSeenFrame(frames[Len(frames)], little_endian).frame = frames[Len(frames)]

\* the lookups of every frame built from a header without such keys agree with
\* the first-seen mapping
SingleKeysAgree ==
    (pc = "SkippingBlob" /\ ~TwoKeysOneCase(source.frames[Len(frames)])) =>
        FirstSeenFrame(frames[Len(frames)], little_endian).frame = frames[Len(frames)]

\* the frames of the directory that were built from a header of the source
Resolved == {i \in 1..Len(frames) : pc # "idle" /\ frames[i].shape # Null}

\* C17: every frame resolved from a header has a shape of rank at least 1, a
\* header without dimension key included, and the shape of a header that
\* declares one dimension of 4 is the single row (1, 4)
C17_ShapeRankAtLeastOne ==
    \A i \in Resolved :
        /\ Len(frames[i].shape[1]) >= 1
        /\ source.frames[i].dim = "row" => frames[i].shape[1] = <<1, 4>>

\* C18: the blob size of every frame of the directory is not negative
C18_BlobSizeNotNegative ==
    \A i \in Resolved : frames[i].blobsize # Null => frames[i].blobsize[1] >= 0

\* the number of bytes of the source up to the end of the first "}\n" or "}\r\n"
\* at or after position p, -1 when there is none
TerminatorEnd(bytes, p) ==
    LET ends == {i \in (p + 1)..Len(bytes) :
                    /\ i >= 2 /\ bytes[i] = "\n"
                    /\ \/ (i - 1 > p /\ bytes[i - 1] = "}")
                       \/ (i - 2 > p /\ bytes[i - 1] = "\r" /\ bytes[i - 2] = "}")}
    IN  IF ends = {} THEN -1 ELSE MinOf(ends)

\* C19: when _read_header_block returns a header, the stream is at the byte
\* after the first "}\n" or "}\r\n" of the frame, a "}\r" that no "\n" follows
\* being passed over, and the directory pass records that position as the
\* start of the frame's data
C19_StreamAfterFirstTerminator ==
    [][/\ (pc = "ReadingHeader" /\ pc' = "HaveHeader") =>
              pos' = TerminatorEnd(Bytes(source), pos)
       /\ (pc = "HaveHeader" /\ pc' = "SkippingBlob") =>
              frames'[Len(frames')].start = Some(pos)]_vars

\* the header of a frame was read whose first chunk ends with "}\r" and whose
\* terminator comes two bytes later
C19_Witness ==
    /\ pc = "SkippingBlob" /\ Len(frames) = 1
    /\ source.frames[1].term = "late" /\ source.frames[1].pad = "chunk"
    /\ source.frames[1].lead = 1
    /\ frames[1].start = Some(Len(HeaderBytes(source.frames[1])))
    /\ Len(HeaderBytes(source.frames[1])) = BLOCKSIZE + 3

\* the first chunk of the header read that starts at position p
FirstChunk(p) == FileRead(Bytes(source), p, BLOCKSIZE)

\* the read at position p finds "{" after nothing but whitespace and a maximum
\* header size it can use
HeaderOpens(p) ==
    /\ Find(FirstChunk(p), <<"{">>, 0) >= 0
    /\ Strip(Slice(FirstChunk(p), 0, Find(FirstChunk(p), <<"{">>, 0)), WHITESPACE) = <<>>
    /\ MaxHeaderSize(FirstChunk(p), Find(FirstChunk(p), <<"{">>, 0) + 1) >= 0

\* MAX_HEADER_SIZE of the read at position p
MaxOfRead(p) == MaxHeaderSize(FirstChunk(p), Find(FirstChunk(p), <<"{">>, 0) + 1)

\* the terminator of the header read at position p ends within n bytes
TerminatorWithin(p, n) ==
    TerminatorEnd(Bytes(source), p) >= 0 /\ TerminatorEnd(Bytes(source), p) - p <= n

\* C20: a header that opens with "{" and has no terminator within the maximum
\* header size, 512 x 40 or a larger declared EDF_HeaderSize, ends in the
\* runaway failure, and a header whose terminator ends within the maximum
\* header size is never rejected as runaway
C20_RunawayOnlyBeyondMaximum ==
    [][(pc = "ReadingHeader" /\ HeaderOpens(pos)) =>
          /\ ~TerminatorWithin(pos, MaxOfRead(pos)) => value'.kind = "MalformedHeaderError"
          /\ TerminatorWithin(pos, MaxOfRead(pos)) => value'.kind # "MalformedHeaderError"]_vars

\* the same when the maximum header size is a whole number of chunks
RunawayOnlyBeyondWholeChunks ==
    [][(pc = "ReadingHeader" /\ HeaderOpens(pos) /\ MaxOfRead(pos) % BLOCKSIZE = 0) =>
          /\ ~TerminatorWithin(pos, MaxOfRead(pos)) => value'.kind = "MalformedHeaderError"
          /\ TerminatorWithin(pos, MaxOfRead(pos)) => value'.kind # "MalformedHeaderError"]_vars

\* no frame of the directory declares a negative size
SizesNotNegative ==
    \A i \in Resolved : frames[i].blobsize # Null => frames[i].blobsize[1] >= 0

\* the frame appended k-th has the index k, and the data of a frame start
\* further in the stream than the data of every frame before it
InStreamOrder ==
    /\ \A k \in Resolved : frames[k].index = k - 1
    /\ \A i, j \in Resolved : i < j => frames[i].start[1] < frames[j].start[1]

\* C26: the directory pass parses the frames in the order of the stream: the
\* frame appended k-th has index k and the data start offsets grow strictly
\* with the index, so no frame is parsed at or before the data start of an
\* earlier frame
C26_FramesInStreamOrder == InStreamOrder

\* the order of the frames when no size is negative
StreamOrderWhenSizesNotNegative == SizesNotNegative => InStreamOrder

\* the stream position at the top of the loop of _readheader once k frames
\* are appended and their blobs skipped
LoopTop(k) == IF k = 0 THEN 0 ELSE frames[k].start[1] + frames[k].blobsize[1]

\* every turn of the loop begins further in the stream than the turn before
EveryTurnAdvances ==
    pc = "ReadingHeader" => \A k \in 1..Len(frames) : LoopTop(k) > LoopTop(k - 1)

\* C27: the directory pass terminates on every finite byte source: a turn of
\* its loop begins further in the stream than the turn before, so that the
\* pass ends at the end of the stream, with the incomplete flag or with an
\* error, and does not append frames without bound
C27_EveryTurnAdvances == EveryTurnAdvances

\* the progress of the loop when no size is negative
TurnsAdvanceWhenSizesNotNegative == SizesNotNegative => EveryTurnAdvances

\* the directory never holds more frames than the source has header blocks,
\* when no size is negative
FramesWithinSourceWhenSizesNotNegative ==
    (pc # "idle" /\ SizesNotNegative) => Len(frames) <= Len(source.frames)

-----------------------------------------------------------------------------
(* fabio/edfimage.py : EdfImage.read called again on the same object *)

\* the byte sources read one after the other: complete ones, ones with the
\* blob of the first or of the second frame cut short, ones with a second
\* header that does not end or runs away, and sources without a first header
RereadSources ==
    {[frames |-> <<>>, trail |-> 0],
     [frames |-> <<Default>>, trail |-> 0],
     [frames |-> <<Default, Default>>, trail |-> 0],
     [frames |-> <<[Default EXCEPT !.blob = 3]>>, trail |-> 0],
     [frames |-> <<Default, [Default EXCEPT !.blob = 3]>>, trail |-> 0],
     [frames |-> <<Default, [Default EXCEPT !.term = "none"]>>, trail |-> 0],
     [frames |-> <<Default, [Default EXCEPT !.pad = "runaway"]>>, trail |-> 0],
     [frames |-> <<[Default EXCEPT !.term = "none"]>>, trail |-> 0]}

\* read(fname) on an object that has read before: resetvals(), then
\* _readheader(infile)
ReadAgain(src) ==
    /\ pc \in {"done", "raised"}
    /\ source' = src
    /\ pos' = 0
    /\ frames' = <<>>
    /\ value' = Null
    /\ pc' = "ReadingHeader"
    /\ raised' = ""
    /\ UNCHANGED <<incomplete_file, currentframe, little_endian, newframe, lastcall, lazy>>

NextReread ==
    \/ (pc = "idle" /\ \E src \in RereadSources : Read(src))
           /\ UNCHANGED <<codecvars, magicvars, openvars, datavars>>
    \/ (\E src \in RereadSources : ReadAgain(src))
           /\ UNCHANGED <<codecvars, magicvars, openvars, datavars>>
    \/ ReadingHeader /\ UNCHANGED <<codecvars, magicvars, openvars, datavars>>
    \/ HaveHeader /\ UNCHANGED <<codecvars, magicvars, openvars, datavars>>
    \/ SkippingBlob /\ UNCHANGED <<codecvars, magicvars, openvars, datavars>>

SpecReread == Init /\ [][NextReread]_vars

\* the directory pass of the read that ended last was stopped by a blob cut
\* short or by a malformed header after the first frame
LastPassCutShort ==
    \/ Len(frames) >= 1 /\ frames[Len(frames)].incomplete_data
    \/ Len(frames) >= 1 /\ value.kind = "MalformedHeaderError"

\* C28: after any sequence of read calls on one object, incomplete_file is
\* true exactly when the directory pass of the most recent read ended by a
\* blob cut short or by a malformed header on a frame of index 1 or more; a
\* complete file read after a truncated one leaves it false
C28_FlagOfMostRecentRead ==
    PassEnded => (incomplete_file <=> LastPassCutShort)

\* a pass that is cut short leaves the flag set
FlagSetWhenCutShort ==
    (PassEnded /\ LastPassCutShort) => incomplete_file

\* no read clears the flag
FlagNeverCleared == [][incomplete_file => incomplete_file']_vars

\* a complete file was read after a truncated one and the flag is still set
StaleFlagAfterCompleteRead ==
    /\ pc = "done" /\ source = [frames |-> <<Default>>, trail |-> 0]
    /\ Len(frames) = 1 /\ ~frames[1].incomplete_data
    /\ incomplete_file

-----------------------------------------------------------------------------
(* fabio/edfimage.py : EdfImage.getframe, next, previous, append_frame and  *)
(* delete_frame on the image of a container of several frames. The images  *)
(* that getframe returns share the list self._frames of the image read.    *)

\* containers of two and of three complete frames
NavSources ==
    {[frames |-> <<Default, Default>>, trail |-> 0],
     [frames |-> <<Default, Default, Default>>, trail |-> 0]}

\* getframe(num) of an image with n frames, n # 1: the exception raised ("" for
\* none) and the currentframe of the image returned
GetframeOf(num, n) ==
    IF num < n THEN [exc |-> "", newImage |-> Some(num)]
    ELSE [exc |-> "IOError", newImage |-> Null]

\* a call op of the image in hand that ends in getframe(num)
Navigate(op, num) ==
    /\ pc = "done"
    /\ lastcall' = [op |-> op, at |-> currentframe, nframes |-> Len(frames), num |-> num,
                    exc |-> GetframeOf(num, Len(frames)).exc,
                    newImage |-> GetframeOf(num, Len(frames)).newImage]
    /\ UNCHANGED <<source, pos, frames, incomplete_file, currentframe, value, pc, raised,
                   little_endian, newframe, lazy>>

\* getframe(num)
Getframe(num) == Navigate("getframe", num)

\* next(): newFrameId = self.currentframe + 1
NextImage == Navigate("next", currentframe + 1)

\* previous(): newFrameId = self.currentframe - 1
PreviousImage == currentframe > 0 - MaxAppended /\ Navigate("previous", currentframe - 1)

\* the caller goes on with the image that the last call returned
UseReturned ==
    /\ pc = "done"
    /\ lastcall # Null
    /\ lastcall.newImage # Null
    /\ currentframe' = lastcall.newImage[1]
    /\ UNCHANGED <<source, pos, frames, incomplete_file, value, pc, raised, little_endian,
                   newframe, lastcall, lazy>>

\* append_frame(): self._frames.append(EdfFrame(data, header))
AppendFrame ==
    /\ pc = "done"
    /\ Len(frames) < MaxAppended
    /\ frames' = Append(frames, EdfFrame(0))
    /\ UNCHANGED <<source, pos, incomplete_file, currentframe, value, pc, raised,
                   little_endian, newframe, lastcall, lazy>>

\* delete_frame(frameNb): self._frames.pop() or self._frames.pop(frameNb); the
\* container keeps two frames at least
DeleteFrame(frameNb) ==
    /\ pc = "done"
    /\ Len(frames) > 2
    /\ frames' = IF frameNb = Null THEN SubSeq(frames, 1, Len(frames) - 1)
                 ELSE SubSeq(frames, 1, frameNb[1])
                      \o SubSeq(frames, frameNb[1] + 2, Len(frames))
    /\ UNCHANGED <<source, pos, incomplete_file, currentframe, value, pc, raised,
                   little_endian, newframe, lastcall, lazy>>

NextNav ==
    \/ (pc = "idle" /\ \E src \in NavSources : Read(src))
           /\ UNCHANGED <<codecvars, magicvars, openvars, datavars>>
    \/ ReadingHeader /\ UNCHANGED <<codecvars, magicvars, openvars, datavars>>
    \/ HaveHeader /\ UNCHANGED <<codecvars, magicvars, openvars, datavars>>
    \/ SkippingBlob /\ UNCHANGED <<codecvars, magicvars, openvars, datavars>>
    \/ (\E num \in 0..MaxAppended : Getframe(num))
           /\ UNCHANGED <<codecvars, magicvars, openvars, datavars>>
    \/ NextImage /\ UNCHANGED <<codecvars, magicvars, openvars, datavars>>
    \/ PreviousImage /\ UNCHANGED <<codecvars, magicvars, openvars, datavars>>
    \/ UseReturned /\ UNCHANGED <<codecvars, magicvars, openvars, datavars>>
    \/ AppendFrame /\ UNCHANGED <<codecvars, magicvars, openvars, datavars>>
    \/ (\E frameNb \in {Null} \cup {Some(k) : k \in 0..(Len(frames) - 1)} : DeleteFrame(frameNb))
           /\ UNCHANGED <<codecvars, magicvars, openvars, datavars>>

SpecNav == Init /\ [][NextNav]_vars

\* C29: in a container of several frames, after any getframe, next, previous,
\* append_frame and delete_frame calls, an image returned without an error has
\* 0 <= currentframe < nframes; next() on the last frame and previous() on the
\* first frame raise IOError and return no image
C29_ReturnedFrameInRange ==
    lastcall # Null =>
        /\ lastcall.exc = "" =>
              (0 <= lastcall.newImage[1] /\ lastcall.newImage[1] < Len(frames))
        /\ (lastcall.op = "next" /\ lastcall.at = lastcall.nframes - 1)
              => lastcall.exc = "IOError"
        /\ (lastcall.op = "previous" /\ lastcall.at = 0) => lastcall.exc = "IOError"

\* next() on the last frame raises IOError
NextOnLastRaises ==
    (lastcall # Null /\ lastcall.op = "next" /\ lastcall.at = lastcall.nframes - 1)
        => lastcall.exc = "IOError"

\* the image returned for a request num >= 0 is in the range of the frames the
\* container had at the call
RequestedFrameInRangeAtCall ==
    (lastcall # Null /\ lastcall.exc = "" /\ lastcall.num >= 0)
        => (0 <= lastcall.newImage[1] /\ lastcall.newImage[1] < lastcall.nframes)

\* previous() on the first frame returned an image whose currentframe is -1
PreviousOnFirstReturns ==
    /\ lastcall # Null /\ lastcall.op = "previous" /\ lastcall.at = 0
    /\ lastcall.exc = "" /\ lastcall.newImage = Some(-1)

\* the last frame was deleted after an image of it was returned
ReturnedFrameDeleted ==
    /\ lastcall # Null /\ lastcall.exc = "" /\ lastcall.num >= 0
    /\ lastcall.newImage[1] >= Len(frames)

-----------------------------------------------------------------------------
(* fabio/edfimage.py : EdfFrame._create_header and                          *)
(* EdfFrame._extract_header_metadata, called one after the other on the     *)
(* header block of one frame as _readheader calls them                      *)

\* what a header block starts with: nothing, a value with '=', NUL bytes and
\* blanks around key and value, a piece without '=', an empty piece and an empty key
NoiseTexts ==
    {<<>>,
     <<"t", "i", "t", "l", "e", "=", "a", "=", "b", ";">>,
     <<" ", "NUL", "k", "NUL", " ", "=", " ", "v", " ", "NUL", ";">>,
     <<"j", "u", "n", "k", ";", "k", "=", "1", ";", "t", "i", "t", "l", "e", "=", "a", "=", "b", ";">>,
     <<"k", "=", "1", ";", ";", "=", "x", ";">>}

\* the byte order it declares
OrderTexts ==
    {<<"B", "y", "t", "e", "O", "r", "d", "e", "r", "=", "L", "o", "w", "B", "y", "t", "e", "F", "i", "r", "s", "t", ";">>,
     <<"B", "y", "t", "e", "O", "r", "d", "e", "r", "=", "H", "i", "g", "h", "B", "y", "t", "e", "F", "i", "r", "s", "t", ";">>,
     <<"B", "y", "t", "e", "O", "r", "d", "e", "r", "=", "M", "i", "d", "d", "l", "e", ";">>}

\* the data type it declares: elements of 1, 2, 4, 8 and 16 bytes
TypeTexts ==
    {<<"D", "a", "t", "a", "T", "y", "p", "e", "=", "U", "n", "s", "i", "g", "n", "e", "d", "B", "y", "t", "e", ";">>,
     <<"D", "a", "t", "a", "T", "y", "p", "e", "=", "S", "i", "g", "n", "e", "d", "S", "h", "o", "r", "t", ";">>,
     <<"D", "a", "t", "a", "T", "y", "p", "e", "=", "F", "l", "o", "a", "t", "V", "a", "l", "u", "e", ";">>,
     <<"D", "a", "t", "a", "T", "y", "p", "e", "=", "S", "i", "g", "n", "e", "d", "6", "4", ";">>,
     <<"D", "a", "t", "a", "T", "y", "p", "e", "=", "Q", "u", "a", "d", "r", "u", "p", "l", "e", "V", "a", "l", "u", "e", ";">>}

\* its DIM_i keys: none, whole, with gaps, with an index or a value that is no integer
DimTexts ==
    {<<>>,
     <<"D", "i", "m", "_", "1", "=", "2", ";">>,
     <<"D", "i", "m", "_", "1", "=", "2", ";", "D", "i", "m", "_", "2", "=", "3", ";">>,
     <<"D", "i", "m", "_", "2", "=", "3", ";">>,
     <<"D", "i", "m", "_", "3", "=", "2", ";", "D", "i", "m", "_", "1", "=", "4", ";">>,
     <<"D", "i", "m", "_", "x", "=", "2", ";">>,
     <<"D", "i", "m", "_", "1", "=", "2", ";", "D", "i", "m", "_", "x", "=", "3", ";">>,
     <<"D", "i", "m", "_", "1", "=", "a", ";">>,
     <<"D", "i", "m", "_", "1", "=", "2", ";", "D", "i", "m", "_", "2", "=", "a", ";">>,
     <<"D", "i", "m", "_", "2", "=", "a", ";", "D", "i", "m", "_", "1", "=", "2", ";">>}

\* what it ends with: nothing, a key seen before, an empty value and a piece without '='
TailTexts ==
    {<<>>,
     <<"k", " ", "=", " ", "2">>,
     <<"t", "i", "t", "l", "e", "=", ";", "j", "u", "n", "k">>}

HeaderBlocks ==
    {n \o o \o t \o d \o e :
        n \in NoiseTexts, o \in OrderTexts, t \in TypeTexts, d \in DimTexts, e \in TailTexts}

\* a header block was read at the head of a file: _read_header_block returned it
InitFrame ==
    /\ source = [frames |-> <<>>, trail |-> 0]
    /\ pos = 0
    /\ frames = <<>>
    /\ incomplete_file = FALSE
    /\ currentframe = 0
    /\ value \in {[kind |-> "header", header_block |-> b, header_size |-> None,
                   binary_size |-> None, pos |-> 0] : b \in HeaderBlocks}
    /\ pc = "HaveHeader"
    /\ raised = ""
    /\ little_endian \in BOOLEAN
    /\ newframe = Null
    /\ lastcall = Null
    /\ lazy = Null
    /\ CodecIdle /\ MagicIdle /\ OpenIdle /\ DataIdle

\* _readheader: frame = EdfFrame() up to frame.start = infile.tell()
CreateFrameHeader ==
    /\ pc = "HaveHeader"
    /\ newframe' = FrameWithHeader(Len(frames), value.header_block, pos)
    /\ pc' = "ExtractMetadata"
    /\ UNCHANGED <<source, pos, frames, incomplete_file, currentframe, value, raised,
                   little_endian, lastcall, lazy>>

\* _readheader: frame._extract_header_metadata(capsHeader)
ExtractMetadata ==
    /\ pc = "ExtractMetadata"
    /\ LET r == ExtractHeaderMetadata(newframe, CreateHeader(value.header_block).capsHeader,
                                      little_endian)
       IN  /\ newframe' = r.frame
           /\ raised' = r.exc
    /\ pc' = "extracted"
    /\ UNCHANGED <<source, pos, frames, incomplete_file, currentframe, value, little_endian, lastcall, lazy>>

NextFrame ==
    \/ CreateFrameHeader /\ UNCHANGED <<codecvars, magicvars, openvars, datavars>>
    \/ ExtractMetadata /\ UNCHANGED <<codecvars, magicvars, openvars, datavars>>

SpecFrame == InitFrame /\ [][NextFrame]_vars

-----------------------------------------------------------------------------
(* Properties of the header of one frame *)

\* the pieces of the header block between semicolons, and those with a '='
PiecesOf(block) == SplitOn(block, ";")
IsCandidate(piece) == \E i \in 1..Len(piece) : piece[i] = "="

\* where a candidate has its first '='
FirstEq(piece) == CHOOSE i \in 1..Len(piece) : piece[i] = "=" /\ \A j \in 1..(i - 1) : piece[j] # "="

\* a text without the blanks and NUL bytes at its two ends
Trimmed(t) ==
    IF \A i \in 1..Len(t) : t[i] \in HEADER_WHITESPACE THEN <<>>
    ELSE LET lo == CHOOSE i \in 1..Len(t) :
                       t[i] \notin HEADER_WHITESPACE
                       /\ \A j \in 1..(i - 1) : t[j] \in HEADER_WHITESPACE
             hi == CHOOSE i \in 1..Len(t) :
                       t[i] \notin HEADER_WHITESPACE
                       /\ \A j \in (i + 1)..Len(t) : t[j] \in HEADER_WHITESPACE
         IN  [k \in 1..(hi - lo + 1) |-> t[lo + k - 1]]

KeyOfPiece(piece) == Trimmed(SubSeq(piece, 1, FirstEq(piece) - 1))
ValOfPiece(piece) == Trimmed(SubSeq(piece, FirstEq(piece) + 1, Len(piece)))

\* C23: the metadata of a frame has one entry for each key of the pieces with
\* a '=' that the semicolons of the header block separate, the key being the
\* text before the first '=' and the value the text after it, both without the
\* blanks and NUL bytes at their ends; the keys stand in the order of their
\* first occurrence and a value keeps the '=' characters after the first
C23_HeaderFromCandidates ==
    newframe # Null =>
        LET pieces == PiecesOf(value.header_block)
            cand   == {k \in 1..Len(pieces) : IsCandidate(pieces[k])}
            with(key) == {k \in cand : KeyOfPiece(pieces[k]) = key}
            h      == newframe.header
        IN  /\ {h[i][1] : i \in 1..Len(h)} = {KeyOfPiece(pieces[k]) : k \in cand}
            /\ \A i, j \in 1..Len(h) :
                   i < j => \E k \in with(h[i][1]) : \A m \in with(h[j][1]) : k < m
            /\ \A i \in 1..Len(h) :
                   \E k \in with(h[i][1]) :
                       /\ \A m \in with(h[i][1]) : m <= k
                       /\ h[i][2] = ValOfPiece(pieces[k])

\* a header block with a piece without '=', a key given twice and a value with
\* a '=' was parsed
C23_Witness ==
    /\ newframe # Null
    /\ Len(newframe.header) >= 2
    /\ newframe.header[1] = <<<<"k">>, <<"2">>>>
    /\ newframe.header[2] = <<<<"t", "i", "t", "l", "e">>, <<"a", "=", "b">>>>
    /\ \E k \in 1..Len(PiecesOf(value.header_block)) :
           ~IsCandidate(PiecesOf(value.header_block)[k])

\* NUL bytes and blanks around a key and its value were dropped
HeaderWithNulParsed ==
    /\ newframe # Null
    /\ \E i \in 1..Len(value.header_block) : value.header_block[i] = "NUL"
    /\ newframe.header[1] = <<<<"k">>, <<"v">>>>

\* the DIM_i keys of the frame whose index is an integer, by index
DimIndexOk(key) == Slice(key, 0, 4) = K_DIM /\ IntOk(Slice(key, 4, Len(key)))
DimIndices(header) ==
    {IntVal(Slice(Upper(header[k][1]), 4, Len(header[k][1]))) :
        k \in {x \in 1..Len(header) : DimIndexOk(Upper(header[x][1]))}}

\* the text of DIM_i in the header
DimText(header, i) ==
    header[CHOOSE k \in 1..Len(header) :
               DimIndexOk(Upper(header[k][1]))
               /\ IntVal(Slice(Upper(header[k][1]), 4, Len(header[k][1]))) = i][2]

HighestDim(header) ==
    IF DimIndices(header) = {} THEN 0
    ELSE CHOOSE i \in DimIndices(header) : \A j \in DimIndices(header) : j <= i

\* the shape of the frame is the one its DIM_i keys give: as long as the
\* highest index, with the integer of DIM_i at rank - i, 1 for a missing DIM_i
\* and 0 for a missing DIM_1
ShapeAsDeclared(f) ==
    /\ f.shape # Null
    /\ Len(f.shape[1]) = HighestDim(f.header)
    /\ \A i \in 1..HighestDim(f.header) :
           IF i \in DimIndices(f.header)
           THEN IntOk(DimText(f.header, i))
                    => f.shape[1][HighestDim(f.header) - i + 1] = IntVal(DimText(f.header, i))
           ELSE f.shape[1][HighestDim(f.header) - i + 1] = (IF i = 1 THEN 0 ELSE 1)

\* C24: for every header, one with a DIM_i index or value that is no integer
\* too, the metadata are extracted and the shape has the rank of the highest
\* DIM_i index and at rank - i the integer of DIM_i, 1 for a missing DIM_i
\* with i > 1 and 0 for a missing DIM_1
C24_ShapeFromDimKeys ==
    pc = "extracted" => (raised = "" /\ ShapeAsDeclared(newframe))

\* the shape of the headers whose metadata are extracted without an error
ShapeFromDimKeysWhenExtracted ==
    (pc = "extracted" /\ raised = "") => ShapeAsDeclared(newframe)

\* the extraction that fails on a DIM_i key leaves with UnboundLocalError
DimFailureIsUnboundLocal ==
    (pc = "extracted" /\ raised # "") => raised = "UnboundLocalError"

\* the value of a key of the header, given in capitals
ValueOfKey(header, caps) ==
    header[CHOOSE k \in 1..Len(header) : Upper(header[k][1]) = caps][2]

\* the bytes of an element of the declared data type
DeclaredWidth(header) ==
    LET name == ValueOfKey(header, K_DATATYPE)
    IN  CASE name = <<"U", "n", "s", "i", "g", "n", "e", "d", "B", "y", "t", "e">> -> 1
          [] name = <<"S", "i", "g", "n", "e", "d", "S", "h", "o", "r", "t">> -> 2
          [] name = <<"F", "l", "o", "a", "t", "V", "a", "l", "u", "e">> -> 4
          [] name = <<"S", "i", "g", "n", "e", "d", "6", "4">> -> 8
          [] name = <<"Q", "u", "a", "d", "r", "u", "p", "l", "e", "V", "a", "l", "u", "e">> -> 16

\* the declared byte order is the other one than the order of the host
OrderDiffers(header, host_le) ==
    \/ ValueOfKey(header, K_BYTEORDER) = <<"H", "i", "g", "h", "B", "y", "t", "e", "F", "i", "r", "s", "t">> /\ host_le
    \/ ValueOfKey(header, K_BYTEORDER) = <<"L", "o", "w", "B", "y", "t", "e", "F", "i", "r", "s", "t">> /\ ~host_le

\* C25: the swap flag of a frame is true exactly when the declared byte order
\* differs from the order of the host and an element has 2, 4 or 8 bytes; with
\* a declared order it is false for elements of one byte and of every other
\* width, 16 bytes for one, also when the declared order differs
C25_SwapOnlyForWidths248 ==
    (pc = "extracted" /\ raised = "") =>
        LET swap == OrderDiffers(newframe.header, little_endian)
                    /\ DeclaredWidth(newframe.header) \in {2, 4, 8}
            declared == ValueOfKey(newframe.header, K_BYTEORDER) \in {<<"L", "o", "w", "B", "y", "t", "e", "F", "i", "r", "s", "t">>, <<"H", "i", "g", "h", "B", "y", "t", "e", "F", "i", "r", "s", "t">>}
        IN  /\ (newframe.swap_needed = Some(TRUE)) <=> swap
            /\ (declared /\ ~swap) => newframe.swap_needed = Some(FALSE)

\* elements of 16 bytes in the other byte order than the host's: no swap
C25_Witness ==
    /\ pc = "extracted" /\ raised = ""
    /\ OrderDiffers(newframe.header, little_endian)
    /\ DeclaredWidth(newframe.header) = 16
    /\ newframe.swap_needed = Some(FALSE)

\* elements of 4 bytes in the other byte order than the host's: swap
SwapOfFloatValue ==
    /\ pc = "extracted" /\ raised = ""
    /\ OrderDiffers(newframe.header, little_endian)
    /\ DeclaredWidth(newframe.header) = 4
    /\ newframe.swap_needed = Some(TRUE)

-----------------------------------------------------------------------------
(* fabio/cbfimage.py : the byte-offset decoders.                            *)
(* An integer is the tuple of the bytes of its two's complement form, least *)
(* significant byte first: 8 bytes for an int64, WIDE bytes for a Python    *)
(* integer, which never wraps within the sums a call can reach.            *)

WIDE == 9

\* the two's complement form b widened to n bytes
SignExt(b, n) ==
    [k \in 1..n |-> IF k <= Len(b) THEN b[k]
                    ELSE IF b[Len(b)] >= 128 THEN 255 ELSE 0]

\* x + y on tuples of the same length, from byte i on, with the carry of the bytes below
RECURSIVE AddFrom(_, _, _, _)
AddFrom(x, y, i, carry) ==
    IF i > Len(x) THEN <<>>
    ELSE LET sum == x[i] + y[i] + carry
         IN  <<sum % 256>> \o AddFrom(x, y, i + 1, sum \div 256)

\* x + y modulo 2^(8 * Len(x))
AddBytes(x, y) == AddFrom(x, y, 1, 0)

\* -x modulo 2^(8 * Len(x))
NegBytes(x) ==
    AddBytes([k \in 1..Len(x) |-> 255 - x[k]], [k \in 1..Len(x) |-> IF k = 1 THEN 1 ELSE 0])

\* x - y modulo 2^(8 * Len(x))
SubBytes(x, y) == AddBytes(x, NegBytes(y))

\* x is the value of a signed integer of k bytes
FitsIn(x, k) == x = SignExt(SubSeq(x, 1, k), Len(x))

\* the int64 of a small integer -128 <= n <= 127
Int64(n) == SignExt(<<(n + 256) % 256>>, 8)

\* numpy.zeros((size), dtype=numpy.int64)
Zeros(n) == [k \in 1..n |-> Int64(0)]

\* the result of a decoder call: the exception it raised ("" for none) and the array
Returned(dataOut) == [exc |-> "", dataOut |-> dataOut]
Raised(exc) == [exc |-> exc, dataOut |-> <<>>]

\* the forms of analysePython with the 32 bit form one byte longer
DeltaAt_LongEscape32(bytes, i) ==
    IF bytes[i + 1] = 128
    THEN IF Slice(bytes, i + 1, i + 3) = <<0, 128>>
         THEN IF Slice(bytes, i + 3, i + 7) = <<0, 0, 0, 128>>
              THEN [payload |-> Slice(bytes, i + 7, i + 15), width |-> 8, shift |-> 15]
              ELSE [payload |-> Slice(bytes, i + 3, i + 7), width |-> 4, shift |-> 8]
         ELSE [payload |-> Slice(bytes, i + 1, i + 3), width |-> 2, shift |-> 3]
    ELSE [payload |-> <<bytes[i + 1]>>, width |-> 1, shift |-> 1]

\* analysePython, the payload of the delta at stream[i] and the bytes it takes:
\* struct.unpack needs a payload of the full width
DeltaAt(bytes, i) ==
    IF bytes[i + 1] = 128
    THEN IF Slice(bytes, i + 1, i + 3) = <<0, 128>>
         THEN IF Slice(bytes, i + 3, i + 7) = <<0, 0, 0, 128>>
              THEN [payload |-> Slice(bytes, i + 7, i + 15), width |-> 8, shift |-> 15]
              ELSE [payload |-> Slice(bytes, i + 3, i + 7), width |-> 4, shift |-> 7]
         ELSE [payload |-> Slice(bytes, i + 1, i + 3), width |-> 2, shift |-> 3]
    ELSE [payload |-> <<bytes[i + 1]>>, width |-> 1, shift |-> 1]

\* the while loop of analysePython: last is a Python integer, dataOut an int64
\* array that takes no value outside the int64 range
RECURSIVE PythonLoop(_, _, _, _, _, _)
PythonLoop(bytes, n, i, j, last, dataOut) ==
    IF ~(i < Len(bytes) /\ j < n) THEN Returned(dataOut)
    ELSE LET d   == DeltaAt(bytes, i)
             sum == AddBytes(last, SignExt(d.payload, WIDE))
         IN  IF Len(d.payload) # d.width THEN Raised("struct.error")
             ELSE IF ~FitsIn(sum, 8) THEN Raised("OverflowError")
             ELSE PythonLoop(bytes, n, i + d.shift, j + 1, sum,
                             [dataOut EXCEPT ![j + 1] = SubSeq(sum, 1, 8)])

\* cbfimage.analysePython(stream, size)
analysePython(bytes, n) == PythonLoop(bytes, n, 0, 0, SignExt(<<0>>, WIDE), Zeros(n))

\* numpy.fromstring(text, dtype) as int64 values: the items of width bytes each
FromString(text, width) ==
    [k \in 1..(Len(text) \div width) |->
        SignExt(SubSeq(text, (k - 1) * width + 1, k * width), 8)]

\* the while True loop of analyseNumpy: listnpa holds the deltas found so far
RECURSIVE NumpyLoop(_, _)
NumpyLoop(bytes, listnpa) ==
    LET idx   == Find(bytes, <<128>>, 0)
        d     == DeltaAt(bytes, idx)
        plain == listnpa \o FromString(Slice(bytes, 0, idx), 1)
    IN  IF idx = -1 THEN Returned(listnpa \o FromString(bytes, 1))
        ELSE IF Len(d.payload) % d.width # 0 THEN Raised("ValueError")
        ELSE NumpyLoop(SubSeq(bytes, idx + d.shift + 1, Len(bytes)),
                       plain \o FromString(d.payload, d.width))

\* numpy cumsum of int64 values: the sums wrap
RECURSIVE CumSum(_, _)
CumSum(deltas, last) ==
    IF deltas = <<>> THEN <<>>
    ELSE <<AddBytes(last, Head(deltas))>> \o CumSum(Tail(deltas), AddBytes(last, Head(deltas)))

\* cbfimage.analyseNumpy(stream, size): size is not used
analyseNumpy(bytes, n) ==
    LET r == NumpyLoop(bytes, <<>>)
    IN  IF r.exc # "" THEN r ELSE Returned(CumSum(r.dataOut, Int64(0)))

\* encode, one delta: the narrowest form whose payload is not the escape of the
\* next wider form
EncodeDelta(delta) ==
    IF FitsIn(delta, 1) /\ delta[1] # 128 THEN <<delta[1]>>
    ELSE IF FitsIn(delta, 2) /\ SubSeq(delta, 1, 2) # <<0, 128>>
    THEN <<128>> \o SubSeq(delta, 1, 2)
    ELSE IF FitsIn(delta, 4) /\ SubSeq(delta, 1, 4) # <<0, 0, 0, 128>>
    THEN <<128, 0, 128>> \o SubSeq(delta, 1, 4)
    ELSE <<128, 0, 128, 0, 0, 0, 128>> \o delta

\* encode(sequence of int64): the deltas to the value before, in int64 arithmetic
RECURSIVE EncodeFrom(_, _)
EncodeFrom(S, last) ==
    IF S = <<>> THEN <<>>
    ELSE EncodeDelta(SubBytes(Head(S), last)) \o EncodeFrom(Tail(S), Head(S))

encode(S) == EncodeFrom(S, Int64(0))

-----------------------------------------------------------------------------
(* Calls of the decoders *)

MaxSeq == 4       \* values of an encoded sequence
MaxStream == 4    \* bytes of a stream that is not the encoding of a sequence
MaxSize == 2      \* requested count for such a stream

MinInt16 == SignExt(<<0, 128>>, 8)
MinInt32 == SignExt(<<0, 0, 0, 128>>, 8)
MinInt64 == <<0, 0, 0, 0, 0, 0, 0, 128>>
MaxInt64 == <<255, 255, 255, 255, 255, 255, 255, 127>>

\* values whose differences need each of the four widths and hit the deltas
\* -128, -32768 and -2^31; the two ends of the int64 range
Descent ==
    <<Int64(-128),
      AddBytes(Int64(-128), MinInt16),
      AddBytes(AddBytes(Int64(-128), MinInt16), MinInt32),
      AddBytes(AddBytes(AddBytes(Int64(-128), MinInt16), MinInt32), Int64(1))>>

Values == {Int64(0), MinInt64, MaxInt64} \cup {Descent[k] : k \in 1..4}

RECURSIVE SeqsUpTo(_, _)
SeqsUpTo(V, n) ==
    IF n = 0 THEN {<<>>}
    ELSE SeqsUpTo(V, n - 1)
         \cup {Append(q, v) : q \in {x \in SeqsUpTo(V, n - 1) : Len(x) = n - 1}, v \in V}

\* the sequences handed to encode
Sequences == SeqsUpTo(Values, MaxSeq)

\* an encoded 64 bit delta and an encoded 32 bit delta, to cut short
Escape64 == <<128, 0, 128, 0, 0, 0, 128, 1, 0, 0, 0, 0, 0, 0, 0>>
Escape32 == <<128, 0, 128, 1, 0, 0, 0>>

Streams ==
    SeqsUpTo({0, 1, 128}, MaxStream)
    \cup {SubSeq(Escape64, 1, n) : n \in 1..Len(Escape64)}
    \cup {SubSeq(Escape32, 1, n) : n \in 1..Len(Escape32)}

\* no decoder was called yet
CodecInit ==
    /\ dataIn = Null /\ stream = <<>> /\ size = 0
    /\ resPython = Null /\ resNumpy = Null /\ cpc = "idle"

InitCodec == EdfInit /\ CodecInit /\ MagicIdle /\ OpenIdle /\ DataIdle

\* a sequence is encoded and the stream handed to the decoders with its length
Encode(S) ==
    /\ cpc = "idle"
    /\ dataIn' = Some(S)
    /\ stream' = encode(S)
    /\ size' = Len(S)
    /\ cpc' = "call"
    /\ UNCHANGED <<resPython, resNumpy>>

\* some bytes are handed to the decoders with a count
Receive(bytes, n) ==
    /\ cpc = "idle"
    /\ dataIn' = Null
    /\ stream' = bytes
    /\ size' = n
    /\ cpc' = "call"
    /\ UNCHANGED <<resPython, resNumpy>>

AnalysePython ==
    /\ cpc = "call" /\ resPython = Null
    /\ resPython' = Some(analysePython(stream, size))
    /\ UNCHANGED <<dataIn, stream, size, resNumpy, cpc>>

AnalyseNumpy ==
    /\ cpc = "call" /\ resNumpy = Null
    /\ resNumpy' = Some(analyseNumpy(stream, size))
    /\ UNCHANGED <<dataIn, stream, size, resPython, cpc>>

NextCodec ==
    \/ (\E S \in Sequences : Encode(S)) /\ UNCHANGED <<edfvars, magicvars, openvars, datavars>>
    \/ (\E bytes \in Streams, n \in 0..MaxSize : Receive(bytes, n))
           /\ UNCHANGED <<edfvars, magicvars, openvars, datavars>>
    \/ AnalysePython /\ UNCHANGED <<edfvars, magicvars, openvars, datavars>>
    \/ AnalyseNumpy /\ UNCHANGED <<edfvars, magicvars, openvars, datavars>>

SpecCodec == InitCodec /\ [][NextCodec]_vars

-----------------------------------------------------------------------------
(* Properties of the decoders *)

\* C7: decoding the encoding of a sequence S with count Len(S) returns S
C7_RoundTrip ==
    (dataIn # Null /\ resPython # Null) => resPython[1] = Returned(dataIn[1])

\* the differences of S, the first value included, are values of signed 64 bit integers
RECURSIVE DeltasFit(_, _)
DeltasFit(S, last) ==
    \/ S = <<>>
    \/ /\ FitsIn(AddBytes(SignExt(Head(S), WIDE), NegBytes(SignExt(last, WIDE))), 8)
       /\ DeltasFit(Tail(S), Head(S))

\* the round trip of the sequences whose differences fit in 64 bits
RoundTripWhenDeltasFit ==
    (dataIn # Null /\ resPython # Null /\ DeltasFit(dataIn[1], Int64(0)))
        => resPython[1] = Returned(dataIn[1])

\* a sequence with all four widths and the three boundary deltas was decoded
RoundTripDescent ==
    dataIn = Some(Descent) /\ resPython = Some(Returned(Descent))
    /\ Len(stream) = 3 + 7 + 15 + 1

\* C8: analysePython and analyseNumpy return the same for every stream and count
C8_DecodersAgree ==
    (resPython # Null /\ resNumpy # Null) => resPython = resNumpy

\* C9: decoding ends when count values are produced or the input is used up,
\* and an input that ends early, inside an escape sequence too, raises nothing
C9_ShortInputNeverRaises ==
    resPython # Null =>
        /\ resPython[1].exc # "struct.error"
        /\ resPython[1].exc = "" => Len(resPython[1].dataOut) = size

-----------------------------------------------------------------------------
(* Calls of analysePython on streams made of whole forms *)

MaxForms == 4     \* forms of such a stream, and the highest count asked for

\* a form of each width: the deltas -1, 256, 65536 and -2^32
Forms ==
    {<<255>>,
     <<128, 0, 1>>,
     <<128, 0, 128, 0, 0, 1, 0>>,
     <<128, 0, 128, 0, 0, 0, 128, 0, 0, 0, 0, 255, 255, 255, 255>>}

RECURSIVE Concat(_)
Concat(q) == IF q = <<>> THEN <<>> ELSE Head(q) \o Concat(Tail(q))

FormStreams == {Concat(q) : q \in SeqsUpTo(Forms, MaxForms)}

NextForms ==
    \/ (cpc = "idle" /\ \E bytes \in FormStreams \cup Streams, n \in 0..MaxForms :
            Receive(bytes, n))
           /\ UNCHANGED <<edfvars, magicvars, openvars, datavars>>
    \/ AnalysePython /\ UNCHANGED <<edfvars, magicvars, openvars, datavars>>

SpecForms == InitCodec /\ [][NextForms]_vars

\* the bytes the delta at stream[i] takes, by the bytes that follow the escape 0x80
TakenAt(bytes, i) ==
    IF bytes[i + 1] # 128 THEN 1
    ELSE IF Slice(bytes, i + 1, i + 3) # <<0, 128>> THEN 3
    ELSE IF Slice(bytes, i + 3, i + 7) # <<0, 0, 0, 128>> THEN 7
    ELSE 15

\* the little-endian payload that closes a form of 1, 3, 7 or 15 bytes
PayloadWidth(taken) == (taken + 1) \div 2

\* the forms of the first n deltas of a stream, from stream[i] on
RECURSIVE FormsFrom(_, _, _)
FormsFrom(bytes, i, n) ==
    IF i >= Len(bytes) \/ n = 0 THEN <<>>
    ELSE LET taken == TakenAt(bytes, i)
         IN  <<[start |-> i, taken |-> taken,
                delta |-> SignExt(Slice(bytes, i + taken - PayloadWidth(taken), i + taken),
                                  WIDE)]>>
             \o FormsFrom(bytes, i + taken, n - 1)

\* the sum of the deltas of the first j forms, as an integer without a width
RECURSIVE SumOfDeltas(_, _)
SumOfDeltas(forms, j) ==
    IF j = 0 THEN SignExt(<<0>>, WIDE)
    ELSE AddBytes(SumOfDeltas(forms, j - 1), forms[j].delta)

\* C21: a call of analysePython that returns has read the deltas one after the
\* other, 1 byte for a plain signed 8 bit delta, 3, 7 and 15 bytes for the
\* escaped 16, 32 and 64 bit deltas, and its output j is the sum of the first
\* j + 1 deltas
C21_RunningSumOfDeltas ==
    (resPython # Null /\ resPython[1].exc = "") =>
        LET forms == FormsFrom(stream, 0, size)
        IN  \A j \in 1..Len(forms) :
                /\ forms[j].start + forms[j].taken <= Len(stream)
                /\ SignExt(resPython[1].dataOut[j], WIDE) = SumOfDeltas(forms, j)

\* a stream with a form of each of the four widths was decoded
C21_Witness ==
    /\ resPython # Null /\ resPython[1].exc = ""
    /\ LET forms == FormsFrom(stream, 0, size)
       IN  {forms[j].taken : j \in 1..Len(forms)} = {1, 3, 7, 15}

-----------------------------------------------------------------------------
(* fabio/openimage.py : MAGIC_NUMBERS, do_magic and its call in _openimage *)

MAGIC_NUMBERS ==
    <<
      <<<<70, 79, 82, 77, 65, 84, 32, 58, 49, 48, 48>>, "bruker100">>,
      <<<<70, 79, 82, 77, 65, 84, 32, 58, 32, 32, 32, 32, 32, 32, 32, 32, 56, 54>>, "bruker">>,
      <<<<77, 77, 0, 42>>, "tif">>,
      <<<<73, 73, 42, 0, 8, 0>>, "marccd/tif">>,
      <<<<73, 73, 42, 0, 130, 0>>, "pilatus">>,
      <<<<73, 73, 42, 0>>, "tif">>,
      <<<<123, 10, 72, 69, 65>>, "dtrek">>,
      <<<<123>>, "edf">>,
      <<<<13, 123>>, "edf">>,
      <<<<10, 123>>, "edf">>,
      <<<<65, 68, 69, 80, 84>>, "GE">>,
      <<<<79, 68>>, "OXD">>,
      <<<<73, 77>>, "HiPiC">>,
      <<<<45, 4>>, "mar345">>,
      <<<<210, 4>>, "mar345">>,
      <<<<4, 45>>, "mar345">>,
      <<<<4, 210>>, "mar345">>,
      <<<<77, 0, 0, 0, 65, 0, 0, 0, 83, 0, 0, 0, 75, 0, 0, 0>>, "fit2dmask">>,
      <<<<0, 0, 0, 3>>, "dm3">>,
      <<<<78, 111>>, "kcd">>,
      <<<<60>>, "xsd">>,
      <<<<10, 184, 3, 0>>, "pixi">>,
      <<<<137, 72, 68, 70, 13, 10, 26, 10>>, "eiger/hdf5">>,
      <<<<82, 45, 65, 88, 73, 83>>, "raxis">>,
      <<<<147, 78, 85, 77, 80, 89>>, "numpy">>,
      <<<<92, 36, 70, 70, 70, 95, 83, 84, 65, 82, 84>>, "fit2d">>,
      <<<<255, 216, 255, 219>>, "jpeg">>,
      <<<<255, 216, 255, 224>>, "jpeg">>,
      <<<<255, 216, 255, 225>>, "jpeg">>,
      <<<<0, 0, 0, 12, 106, 80, 32, 32, 13, 10, 135, 10>>, "jpeg2k">>
    >>

\* byts.startswith(magic)
StartsWith(b, magic) == Len(magic) <= Len(b) /\ SubSeq(b, 1, Len(magic)) = magic

\* "/" in format_type
HasSlash(format_type) == format_type \in {"marccd/tif", "eiger/hdf5"}

\* do_magic without the test of "::" in the filename
Resolve_NoDataPath(format_type, name) ==
    IF format_type = "eiger/hdf5" THEN <<"eiger", "soleil">>
    ELSE IF format_type = "marccd/tif"
    THEN IF \E k \in 1..Len(SplitOn(name, ".")) : SplitOn(name, ".")[k] = <<"m", "c", "c", "d">>
         THEN <<"marccd">> ELSE <<"tif">>
    ELSE <<format_type>>

\* what do_magic returns once byts starts with the magic of format_type
Resolve(format_type, name) ==
    IF HasSlash(format_type) /\ format_type = "eiger/hdf5"
    THEN IF Contains(name, <<":", ":">>) THEN <<"hdf5">> ELSE <<"eiger", "soleil">>
    ELSE IF HasSlash(format_type) /\ format_type = "marccd/tif"
    THEN IF \E k \in 1..Len(SplitOn(name, ".")) : SplitOn(name, ".")[k] = <<"m", "c", "c", "d">>
         THEN <<"marccd">> ELSE <<"tif">>
    ELSE <<format_type>>

\* the entries of MAGIC_NUMBERS that byts starts with
Matching(b) == {k \in 1..Len(MAGIC_NUMBERS) : StartsWith(b, MAGIC_NUMBERS[k][1])}

\* do_magic where the last entry that matches decides
do_magic_LastMatch(b, name) ==
    IF Matching(b) = {} THEN Null
    ELSE Resolve(MAGIC_NUMBERS[CHOOSE k \in Matching(b) : \A j \in Matching(b) : j <= k][2], name)

\* do_magic(byts, filename): the list of format names of the first entry that
\* matches, Null for None
do_magic(b, name) ==
    IF Matching(b) = {} THEN Null
    ELSE Resolve(MAGIC_NUMBERS[MinOf(Matching(b))][2], name)

\* the bytes _openimage reads for do_magic: f.read(18)
MAGIC_BYTES == 18

MaxTail == 2      \* bytes that follow a magic number in an input

\* the bytes that may follow a magic number
Tails == SeqsUpTo({0, 8, 130}, MaxTail)

\* the starts of a file: a magic number, whole or one byte short, and what follows
Prefixes ==
    {SubSeq(MAGIC_NUMBERS[k][1] \o t, 1,
            Min2(IF short THEN Len(MAGIC_NUMBERS[k][1]) - 1 ELSE Len(MAGIC_NUMBERS[k][1] \o t),
                 MAGIC_BYTES)) :
        k \in 1..Len(MAGIC_NUMBERS), t \in Tails, short \in BOOLEAN}

Filenames ==
    {<<"a", ".", "m", "c", "c", "d">>,
     <<"a", ".", "t", "i", "f">>,
     <<"a", ".", "m", "c", "c", "d", ".", "g", "z">>,
     <<"m", "c", "c", "d">>,
     <<"a", "m", "c", "c", "d", ".", "t", "i", "f">>,
     <<"a", ".", "h", "5">>,
     <<"a", ".", "h", "5", ":", ":", "/", "e">>,
     <<"d", ".", "x", "/", "a", ".", "m", "c", "c", "d">>}

\* no sniffer call was made yet
MagicInit == byts = <<>> /\ filename = <<>> /\ filetypes = Null /\ mpc = "idle"

InitMagic == EdfInit /\ CodecIdle /\ MagicInit /\ OpenIdle /\ DataIdle

\* _openimage(filename): the first bytes of the file are read
ReadMagicBytes(b, name) ==
    /\ mpc = "idle"
    /\ byts' = b
    /\ filename' = name
    /\ mpc' = "read"
    /\ UNCHANGED filetypes

\* _openimage: filetypes = do_magic(magic_bytes, filename)
DoMagic ==
    /\ mpc = "read"
    /\ filetypes' = do_magic(byts, filename)
    /\ mpc' = "done"
    /\ UNCHANGED <<byts, filename>>

NextMagic ==
    \/ (\E b \in Prefixes, name \in Filenames : ReadMagicBytes(b, name))
           /\ UNCHANGED <<edfvars, codecvars, openvars, datavars>>
    \/ DoMagic /\ UNCHANGED <<edfvars, codecvars, openvars, datavars>>

SpecMagic == InitMagic /\ [][NextMagic]_vars

-----------------------------------------------------------------------------
(* Properties of the sniffer *)

MARCCD_MAGIC  == <<73, 73, 42, 0, 8, 0>>
PILATUS_MAGIC == <<73, 73, 42, 0, 130, 0>>

\* "mccd" is one of the components of the filename that dots separate
HasMccdComponent(name) ==
    \E k \in 1..Len(SplitOn(name, ".")) : SplitOn(name, ".")[k] = <<"m", "c", "c", "d">>

\* C10 as stated: a prefix that matches the generic TIFF pattern 49 49 2A 00 and
\* one of the 6 byte patterns 49 49 2A 00 08 00, 49 49 2A 00 82 00 never
\* resolves to "tif", whatever the filename
C10_NeverGenericTif ==
    (mpc = "done" /\ (StartsWith(byts, MARCCD_MAGIC) \/ StartsWith(byts, PILATUS_MAGIC))) =>
        (filetypes # Null /\ \A k \in 1..Len(filetypes) : filetypes[k] # "tif")

\* C10 amended: 49 49 2A 00 82 00 resolves to pilatus for every filename;
\* 49 49 2A 00 08 00 resolves to marccd when "mccd" is a dot separated component
\* of the filename and to tif otherwise
C10_VendorByFilename ==
    mpc = "done" =>
        /\ StartsWith(byts, PILATUS_MAGIC) => filetypes = <<"pilatus">>
        /\ StartsWith(byts, MARCCD_MAGIC) =>
              filetypes = IF HasMccdComponent(filename) THEN <<"marccd">> ELSE <<"tif">>

C10_Witness ==
    /\ mpc = "done"
    /\ byts = PILATUS_MAGIC \o <<8, 0>>
    /\ filename = <<"a", ".", "t", "i", "f">>
    /\ filetypes = <<"pilatus">>

HDF5_MAGIC == <<137, 72, 68, 70, 13, 10, 26, 10>>

\* two colons in a row in the filename
HasDataPath(name) == \E k \in 1..(Len(name) - 1) : name[k] = ":" /\ name[k + 1] = ":"

\* entry k of the table is the first one that the bytes start with
FirstMatch(b, k) ==
    /\ StartsWith(b, MAGIC_NUMBERS[k][1])
    /\ \A j \in 1..(k - 1) : ~StartsWith(b, MAGIC_NUMBERS[j][1])

\* C22: the HDF5 prefix resolves to hdf5 when the filename contains "::" and to
\* the pair eiger, soleil otherwise; 49 49 2A 00 08 00 resolves to marccd when
\* "mccd" is a dot separated component of the filename and to tif otherwise;
\* every other prefix that matches resolves to the identifier of the first
\* entry of the table that is a prefix of the bytes, alone in a list
C22_ContextEntriesResolved ==
    mpc = "done" =>
        \A k \in 1..Len(MAGIC_NUMBERS) :
            FirstMatch(byts, k) =>
                filetypes =
                    IF MAGIC_NUMBERS[k][1] = HDF5_MAGIC
                    THEN IF HasDataPath(filename) THEN <<"hdf5">> ELSE <<"eiger", "soleil">>
                    ELSE IF MAGIC_NUMBERS[k][1] = MARCCD_MAGIC
                    THEN IF HasMccdComponent(filename) THEN <<"marccd">> ELSE <<"tif">>
                    ELSE <<MAGIC_NUMBERS[k][2]>>

\* an HDF5 file named with a data path was sniffed
C22_Witness ==
    /\ mpc = "done"
    /\ StartsWith(byts, HDF5_MAGIC)
    /\ filename = <<"a", ".", "h", "5", ":", ":", "/", "e">>
    /\ filetypes = <<"hdf5">>

-----------------------------------------------------------------------------
(* fabio/openimage.py : openimage, openimage_str, openimage_PathTypes,      *)
(* openimage_FilenameObject and _openimage.                                 *)
(*                                                                          *)
(* What a filename names is a record:                                       *)
(*   exists  - os.path.exists(filename)                                     *)
(*   base    - the part of the filename before "::" is an existing file     *)
(*   head    - the first bytes of that file                                 *)
(*   name    - the characters of the filename                               *)
(*   format  - what FilenameObject(filename).format is                      *)
(*   missing - the reader classes fabioformats.factory does not have        *)
(*   reads   - what read() of the k-th candidate reader does                *)
(* isinstance(filename, unicode) is the Python 2 builtin.                   *)
(***************************************************************************)

\* "::" in filename
HasDoubleColon(name) == Contains(name, <<":", ":">>)

\* the file that actual_filename names is there
ActualExists(e) == e.exists \/ (HasDoubleColon(e.name) /\ e.base)

\* FabioImage._open(actual_filename): IOError when the file is not there
OpenRaises(e) == ~ActualExists(e)

\* f.read(18)
FileHead(e) == SubSeq(e.head, 1, Min2(MAGIC_BYTES, Len(e.head)))

\* an outcome of a call: the exception that left it ("" when it returned) and
\* the value it returned
Outcome(exc, val) == [exc |-> exc, value |-> val]

\* the name guess of _openimage that keeps a filename of no format
FileTypes_NoFormatDefault(e, bytes) ==
    IF do_magic(bytes, e.name) # Null THEN Outcome("", do_magic(bytes, e.name))
    ELSE IF e.format.kind = "raises" THEN Outcome("IOError", Null)
    ELSE IF e.format.kind = "list" /\ e.format.len # 1 THEN Outcome("IOError", Null)
    ELSE IF e.format.kind # "None" THEN Outcome("", <<e.format.joined>>)
    ELSE Outcome("", <<"edf">>)

\* _openimage: filetypes = do_magic(magic_bytes, filename), then the guess from
\* the name when that is None
FileTypes(e, bytes) ==
    IF do_magic(bytes, e.name) # Null THEN Outcome("", do_magic(bytes, e.name))
    ELSE IF e.format.kind = "raises" THEN Outcome("IOError", Null)
    ELSE IF e.format.kind # "None" /\ e.format.len # 1 /\ e.format.kind = "list"
    THEN Outcome("IOError", Null)
    ELSE IF e.format.kind # "None" THEN Outcome("", <<e.format.joined>>)
    ELSE Outcome("IOError", Null)

\* fabioformats.factory(klass_name) finds the class
Registered(e, filetype) == e.missing = "none" \/ (e.missing = "eiger" /\ filetype # "eiger")

\* objs of _openimage: one reader for each filetype the factory has a class of
Readers(e, types) == SelectSeq(types, LAMBDA t : Registered(e, t))

\* openimage_str: the loop over objs
RECURSIVE ReadLoop(_, _, _)
ReadLoop(e, readers, k) ==
    IF k > Len(readers) THEN Outcome("NotGoodReader", Null)
    ELSE IF e.reads[k] = "ok" THEN Outcome("", Some(readers[k]))
    ELSE IF e.reads[k] = "NotGoodReader" THEN ReadLoop(e, readers, k + 1)
    ELSE Outcome(e.reads[k], Null)

Formats ==
    {[kind |-> "raises", len |-> 0, joined |-> ""],
     [kind |-> "None", len |-> 0, joined |-> ""],
     [kind |-> "str", len |-> 3, joined |-> "edf"],
     [kind |-> "list", len |-> 1, joined |-> "edf"],
     [kind |-> "list", len |-> 2, joined |-> "adscOXD"]}

\* more than 18 bytes of a file that starts with a magic number
LongHead == MARCCD_MAGIC \o <<0, 0, 0, 0, 0, 0, 0, 0, 0, 0, 0, 0, 0, 0>>

Heads == {<<1, 2>>, LongHead, <<137, 72, 68, 70, 13, 10, 26, 10>>}

OpenNames ==
    {<<"a", ".", "m", "c", "c", "d">>,
     <<"a", ".", "h", "5", ":", ":", "/", "e">>}

ReadOutcomes ==
    {<<"ok", "ok">>, <<"NotGoodReader", "ok">>, <<"NotGoodReader", "NotGoodReader">>,
     <<"IOError", "ok">>}

Named ==
    {e \in [exists : BOOLEAN, base : BOOLEAN, head : Heads \cup {<<>>}, name : OpenNames,
            format : Formats, missing : {"none", "eiger", "all"}, reads : ReadOutcomes] :
        /\ e.base => HasDoubleColon(e.name) /\ ~e.exists
        /\ ActualExists(e) <=> e.head # <<>>}

\* what filename.stem names for the second openimage_str of a FilenameObject
Stems == {e \in Named : /\ e.name = <<"a", ".", "m", "c", "c", "d">> /\ e.missing = "none"
                        /\ e.format.kind = "None" /\ e.head \in {<<>>, LongHead}
                        /\ e.reads[2] = "ok"}

Calls ==
    {[kind |-> k, tries |-> <<e>>] : k \in {"str", "unicode", "path"}, e \in Named}
    \cup {[kind |-> "FilenameObject", tries |-> <<e, st>>] : e \in Named, st \in Stems}
    \cup {[kind |-> "stream", tries |-> <<>>]}

\* no openimage call was made yet
OpenInit ==
    /\ call = Null /\ attempt = 0 /\ magic_bytes = <<>> /\ objs = <<>>
    /\ result = Null /\ opc = "idle"

InitOpen == EdfInit /\ CodecIdle /\ MagicIdle /\ OpenInit /\ DataIdle

\* openimage(filename, frame): the isinstance chain; an argument of none of
\* the four types leaves the function at its end
Openimage(c) ==
    /\ opc = "idle"
    /\ call' = c
    /\ IF c.kind \in {"str", "unicode", "path", "FilenameObject"}
       THEN attempt' = 1 /\ opc' = "_openimage" /\ UNCHANGED result
       ELSE attempt' = 0 /\ opc' = "done" /\ result' = Outcome("", Null)
    /\ UNCHANGED <<magic_bytes, objs>>

\* _openimage: actual_filename, imo._open(actual_filename) and f.read(18)
OpenFile ==
    /\ opc = "_openimage"
    /\ LET e == call.tries[attempt]
       IN  IF OpenRaises(e)
           THEN /\ result' = Outcome("IOError", Null)
                /\ opc' = "unwinding"
                /\ UNCHANGED magic_bytes
           ELSE /\ magic_bytes' = FileHead(e)
                /\ opc' = "identify"
                /\ UNCHANGED result
    /\ UNCHANGED <<call, attempt, objs>>

\* _openimage: from do_magic to return objs
Identify ==
    /\ opc = "identify"
    /\ LET e == call.tries[attempt]
           types == FileTypes(e, magic_bytes)
       IN  IF types.exc # ""
           THEN /\ result' = Outcome("IOError", Null)
                /\ opc' = "unwinding"
                /\ UNCHANGED objs
           ELSE IF Len(Readers(e, types.value)) = 0
           THEN /\ result' = Outcome("IOError", Null)
                /\ opc' = "unwinding"
                /\ UNCHANGED objs
           ELSE /\ objs' = Readers(e, types.value)
                /\ opc' = "reading"
                /\ UNCHANGED result
    /\ UNCHANGED <<call, attempt, magic_bytes>>

\* openimage_str: obj.read(filename, frame) of each candidate in turn
ReadCandidates ==
    /\ opc = "reading"
    /\ result' = ReadLoop(call.tries[attempt], objs, 1)
    /\ opc' = "unwinding"
    /\ UNCHANGED <<call, attempt, magic_bytes, objs>>

\* openimage_str has returned or raised: what its caller makes of it
Unwind ==
    /\ opc = "unwinding"
    /\ IF call.kind = "FilenameObject" /\ attempt = 1 /\ result.exc # ""
       THEN /\ attempt' = 2
            /\ opc' = "_openimage"
            /\ objs' = <<>>
            /\ magic_bytes' = <<>>
            /\ result' = Null
       ELSE /\ opc' = "done"
            /\ result' = IF call.kind = "path" /\ result.exc = ""
                         THEN Outcome("", Null) ELSE result
            /\ UNCHANGED <<attempt, objs, magic_bytes>>
    /\ UNCHANGED call

NextOpen ==
    \/ opc = "idle" /\ (\E c \in Calls : Openimage(c))
           /\ UNCHANGED <<edfvars, codecvars, magicvars, datavars>>
    \/ OpenFile /\ UNCHANGED <<edfvars, codecvars, magicvars, datavars>>
    \/ Identify /\ UNCHANGED <<edfvars, codecvars, magicvars, datavars>>
    \/ ReadCandidates /\ UNCHANGED <<edfvars, codecvars, magicvars, datavars>>
    \/ Unwind /\ UNCHANGED <<edfvars, codecvars, magicvars, datavars>>

SpecOpen == InitOpen /\ [][NextOpen]_vars

-----------------------------------------------------------------------------
(* Properties of openimage *)

\* what the filename of the openimage_str call in progress names
CurrentTry == call.tries[attempt]

\* neither the magic table nor the name guess gives a format
Unidentified(e) ==
    /\ ActualExists(e)
    /\ do_magic(FileHead(e), e.name) = Null
    /\ e.format.kind \in {"None", "raises"}

C12_ReturnsTheImageRead ==
    (opc = "done" /\ result.exc = "")
        => (result.value # Null /\ result = ReadLoop(CurrentTry, objs, 1))

-----------------------------------------------------------------------------
(* fabio/edfimage.py : EdfFrame._unpack, EdfFrame.data, EdfImage.data.      *)
(*                                                                          *)
(* A pixel buffer is a record: dtype, shape and items, the elements in      *)
(* storage order, each the tuple of its bytes.  A byte of a buffer is a     *)
(* byte of the blob ("a", "b", ...), the zero byte "NUL", or "s", a byte    *)
(* that a decompressor produced.  The file object of the frames is          *)
(* fileenv: closed, gz (a GzipFile whose compressed stream is cut where the *)
(* bytes of the source end, so that a read across the end raises),          *)
(* byte_offset (the byte_offset module can be imported).                    *)
(***************************************************************************)

MaxOps == 4       \* data operations on one image

Buffer(dtype, shape, items) == [dtype |-> dtype, shape |-> shape, items |-> items]

\* numpy.zeros(shape): float64 zeros
NumpyZeros(shape) ==
    Buffer("float64", shape, [k \in 1..GetDataCounts(shape) |-> Rep("NUL", 8)])

Reverse(t) == [k \in 1..Len(t) |-> t[Len(t) + 1 - k]]

\* numpy.frombuffer(rawData, dtype, count).copy().reshape(shape), byte swapped
\* when swap is set
FromBuffer(rawData, dtype, count, shape, swap) ==
    LET w == ItemSize(dtype)
    IN  Buffer(dtype, shape,
               [k \in 1..count |->
                    IF swap THEN Reverse(SubSeq(rawData, (k - 1) * w + 1, k * w))
                    ELSE SubSeq(rawData, (k - 1) * w + 1, k * w)])

\* what decGzip, decBzip2, decZlib and byte_offset.analyseCython give for the
\* whole blob of a frame: n bytes of samples
Decompress(fileData, n) == Rep("s", n)

\* self.file.read(self.blobsize) after self.file.seek(self.start); a negative
\* or missing size reads to the end of the file
BlobRead(f, bytes) ==
    IF f.blobsize = Null \/ f.blobsize[1] < 0
    THEN FileRead(bytes, f.start[1], Len(bytes))
    ELSE FileRead(bytes, f.start[1], f.blobsize[1])

\* the read of the blob runs into the cut of a GzipFile
BlobReadCut(f, bytes, env) ==
    env.gz /\ (f.blobsize = Null \/ f.blobsize[1] < 0
               \/ f.start[1] + f.blobsize[1] > Len(bytes))

\* rawData of _unpack: the names of the compression branches, in their order
RawData(f, fileData, env) ==
    LET n == ItemSize(f.dtype[1]) * GetDataCounts(f.shape[1])
        c == f.compression[1]
    IN  IF f.compression = Null THEN [exc |-> "", raw |-> fileData, size |-> f.size]
        ELSE IF Contains(c, <<"O", "F", "F", "S", "E", "T">>)
        THEN IF env.byte_offset
             THEN [exc |-> "", raw |-> Decompress(fileData, n), size |-> Some(n)]
             ELSE [exc |-> "UnboundLocalError", raw |-> <<>>, size |-> f.size]
        ELSE IF c = K_NONE THEN [exc |-> "", raw |-> fileData, size |-> f.size]
        ELSE IF Contains(c, <<"G", "Z", "I", "P">>) \/ Contains(c, <<"B", "Z">>)
                \/ Contains(c, <<"Z">>)
        THEN [exc |-> "", raw |-> Decompress(fileData, n), size |-> Some(n)]
        ELSE [exc |-> "", raw |-> fileData, size |-> f.size]

\* rawData cut or filled with zero bytes to the expected size
Fitted(rawData, expected) ==
    IF expected > Len(rawData) THEN rawData \o Rep("NUL", expected - Len(rawData))
    ELSE SubSeq(rawData, 1, expected)

\* the end of _unpack that leaves _dtype as it is
Stored_KeepsDtype(f, data) == [f EXCEPT !.data = Some(data)]

\* the end of _unpack: self._data = data; self._dtype = None
Stored(f, data) == [f EXCEPT !.data = Some(data), !.dtype = Null]

\* EdfFrame._unpack on frame f: what it returns or raises, the frame after it,
\* the number of blob reads and of writes to _data it made
Unpack(f, bytes, env) ==
    LET same(exc, val) == [ret |-> Outcome(exc, val), frame |-> f, reads |-> 0, stores |-> 0]
        fileData == BlobRead(f, bytes)
        raw      == RawData(f, fileData, env)
        count    == raw.size[1] \div ItemSize(f.dtype[1])
        data     == FromBuffer(Fitted(raw.raw, raw.size[1]), f.dtype[1], count, f.shape[1],
                               f.swap_needed = Some(TRUE))
    IN  IF f.data # Null THEN same("", f.data)
        ELSE IF f.file = Null THEN same("", f.data)
        ELSE IF f.dtype = Null THEN same("AssertionError", Null)
        ELSE IF env.closed THEN same("", Null)
        ELSE IF BlobReadCut(f, bytes, env)
        THEN [ret |-> Outcome("", Some(NumpyZeros(f.shape[1]))), frame |-> f,
              reads |-> 1, stores |-> 0]
        ELSE IF raw.exc # ""
        THEN [ret |-> Outcome(raw.exc, Null), frame |-> f, reads |-> 1, stores |-> 0]
        ELSE IF count # GetDataCounts(f.shape[1])
        THEN [ret |-> Outcome("ValueError", Null), frame |-> [f EXCEPT !.size = raw.size],
              reads |-> 1, stores |-> 0]
        ELSE [ret |-> Outcome("", Some(data)),
              frame |-> Stored([f EXCEPT !.size = raw.size], data),
              reads |-> 1, stores |-> 1]

\* frames whose pixels are read: complete, cut short and missing blobs, two
\* byte elements of either byte order, no dimension or one, a size that is
\* negative or smaller than the blob, compressions with and without decoder
DataCases ==
    {[Default EXCEPT !.blob = n] : n \in {4, 3, 0}}
    \cup {[Default EXCEPT !.dt = "s16", !.bo = b] : b \in {"low", "high"}}
    \cup {[Default EXCEPT !.dim = m] : m \in {"none", "row"}}
    \cup {[Default EXCEPT !.size = z] : z \in {"neg", "dup"}}
    \cup {[Default EXCEPT !.comp = c, !.blob = n] : c \in {"foo", "offset", "gzip"}, n \in {4, 3}}

\* a frame whose header fills the first chunk and whose blob is cut short
ChunkCases == {[Default EXCEPT !.lead = 1, !.pad = "chunk", !.blob = n] : n \in {3, 0}}

FileObjects == [closed : BOOLEAN, gz : BOOLEAN, byte_offset : BOOLEAN]

\* the one-frame sources read through the file object env: a GzipFile is cut
\* in the blob that follows a header of one whole chunk
DataSources(env) ==
    {[frames |-> <<d>>, trail |-> 0] : d \in IF env.gz THEN ChunkCases ELSE DataCases}

\* the values a caller assigns to data
Assigned == {Some(Buffer("uint8", <<1, 1>>, <<<<"v">>>>))}

\* EdfImage() on a file object, nothing read yet
InitData ==
    /\ EdfInit /\ CodecIdle /\ MagicIdle /\ OpenIdle
    /\ fileenv \in FileObjects
    /\ accessed = Null /\ reads = 0 /\ stores = 0 /\ firstbuf = Null /\ ops = 0

\* EdfImage.data, getter: frame.data of the current frame, that is _unpack
GetData ==
    /\ pc = "done" /\ ops < MaxOps
    /\ LET u == Unpack(frames[currentframe + 1], Bytes(source), fileenv)
       IN  /\ accessed' = u.ret
           /\ frames' = [frames EXCEPT ![currentframe + 1] = u.frame]
           /\ reads' = reads + u.reads
           /\ stores' = stores + u.stores
           /\ firstbuf' = IF stores = 0 /\ u.stores = 1 THEN u.frame.data ELSE firstbuf
    /\ ops' = ops + 1
    /\ UNCHANGED fileenv

\* EdfImage.data, setter: frame.data = value
SetData(v) ==
    /\ pc = "done" /\ ops < MaxOps
    /\ frames' = [frames EXCEPT ![currentframe + 1].data = v]
    /\ accessed' = Null
    /\ ops' = ops + 1
    /\ UNCHANGED <<fileenv, reads, stores, firstbuf>>

\* EdfImage.data, deleter: frame.data = None
DelData ==
    /\ pc = "done" /\ ops < MaxOps
    /\ frames' = [frames EXCEPT ![currentframe + 1].data = Null]
    /\ accessed' = Null
    /\ ops' = ops + 1
    /\ UNCHANGED <<fileenv, reads, stores, firstbuf>>

datafixed == <<source, pos, incomplete_file, currentframe, value, pc, raised, little_endian, newframe, lastcall, lazy>>

NextData ==
    \/ (\E src \in DataSources(fileenv) : Read(src))
           /\ UNCHANGED <<codecvars, magicvars, openvars, datavars>>
    \/ ReadingHeader /\ UNCHANGED <<codecvars, magicvars, openvars, datavars>>
    \/ HaveHeader /\ UNCHANGED <<codecvars, magicvars, openvars, datavars>>
    \/ SkippingBlob /\ UNCHANGED <<codecvars, magicvars, openvars, datavars>>
    \/ GetData /\ UNCHANGED <<datafixed, codecvars, magicvars, openvars>>
    \/ (\E v \in Assigned : SetData(v)) /\ UNCHANGED <<datafixed, codecvars, magicvars, openvars>>
    \/ DelData /\ UNCHANGED <<datafixed, codecvars, magicvars, openvars>>

SpecData == InitData /\ [][NextData]_vars

-----------------------------------------------------------------------------
(* Properties of the pixel access *)

\* the frame of the current image that data reads
CurrentFrame == frames[currentframe + 1]

\* the current frame with the element type that its header declares, which
\* _unpack forgets
Declared ==
    LET header == CurrentFrame.header
        caps   == CapsOfHeader(header, Len(header))
    IN  [CurrentFrame EXCEPT !.dtype = DataTypeOf(DictGet(header, DictGet(caps, K_DATATYPE)))]

\* the first data operation was an access and it is the only operation so far
FirstAccessMade == pc = "done" /\ ops = 1 /\ accessed # Null

RECURSIVE Flatten(_)
Flatten(items) == IF items = <<>> THEN <<>> ELSE Head(items) \o Flatten(Tail(items))

\* the buffer has the declared shape and element type, and its bytes are those
\* of the blob as far as they go, cut to the expected size or followed by zeros
ZeroFilled(buf) ==
    /\ buf.dtype = Declared.dtype[1]
    /\ buf.shape = Declared.shape[1]
    /\ Len(buf.items) = GetDataCounts(Declared.shape[1])
    /\ Len(Flatten(buf.items)) = GetDataCounts(Declared.shape[1]) * ItemSize(Declared.dtype[1])
    /\ Declared.swap_needed # Some(TRUE) =>
          Flatten(buf.items) = Fitted(BlobRead(Declared, Bytes(source)), Declared.size[1])

\* C14: _unpack of a frame without compression on an open file never raises,
\* however short the blob read is: it returns a buffer of product(shape)
\* elements of the declared type, missing bytes zero at the tail, surplus dropped
C14_ShortReadZeroFilled ==
    (FirstAccessMade /\ ~fileenv.closed /\ Declared.compression = Null) =>
        (accessed.exc = "" /\ accessed.value # Null /\ ZeroFilled(accessed.value[1]))

\* the same for every file object but a GzipFile cut in the blob
ShortReadZeroFilledPlainFile ==
    (FirstAccessMade /\ ~fileenv.closed /\ ~fileenv.gz /\ Declared.compression = Null) =>
        (accessed.exc = "" /\ accessed.value # Null /\ ZeroFilled(accessed.value[1]))

\* the bytes of the blobs of the sources
BlobByteValues == {"a", "b", "c", "d"}

\* C15: the buffer that materialization returns for a frame that declares a
\* compression holds no byte of the undecoded blob
C15_NoUndecodedBytes ==
    (FirstAccessMade /\ Declared.compression # Null
     /\ accessed.exc = "" /\ accessed.value # Null) =>
        \A k \in 1..Len(Flatten(accessed.value[1].items)) :
            Flatten(accessed.value[1].items)[k] \notin BlobByteValues

-----------------------------------------------------------------------------
(* fabio/edfimage.py : EdfImage.lazy_iterator, run on the byte source that   *)
(* the directory pass has read                                              *)

\* byte sources of both readers: complete containers of one and two frames,
\* blobs cut short or missing, a header that declares no size or a size that
\* is no integer, two sizes, no dimension, an unknown data type, a header
\* that does not end, bytes before the first header, and an empty source
LazySources ==
    {[frames |-> <<>>, trail |-> 0]}
    \cup {[frames |-> <<d>>, trail |-> 0] :
            d \in {Default, [Default EXCEPT !.blob = 3], [Default EXCEPT !.blob = 0],
                   [Default EXCEPT !.size = "none"], [Default EXCEPT !.size = "bad"],
                   [Default EXCEPT !.size = "dup"], [Default EXCEPT !.dim = "none"],
                   [Default EXCEPT !.dt = "bad"], [Default EXCEPT !.term = "none"],
                   [Default EXCEPT !.junk = TRUE]}}
    \cup {[frames |-> <<Default, d>>, trail |-> t] :
            d \in {Default, [Default EXCEPT !.blob = 3], [Default EXCEPT !.size = "none"],
                   [Default EXCEPT !.size = "bad"], [Default EXCEPT !.term = "none"],
                   [Default EXCEPT !.lead = 2, !.pad = "chunk"]},
            t \in 0..1}

\* lazy_iterator(filename): edf = cls(); infile = edf._open(filename, 'rb'); index = 0.
\* blobsize is the local variable of that name, Null while unbound
LazyIterator ==
    /\ PassEnded
    /\ lazy = Null
    /\ lazy' = [pc |-> "ReadingHeader", pos |-> 0, value |-> Null, blobsize |-> Null,
                frames |-> <<>>, exc |-> ""]
    /\ UNCHANGED <<source, pos, frames, incomplete_file, currentframe, value, pc, raised,
                   little_endian, newframe, lastcall>>

\* lazy_iterator, top of the loop: value = cls._read_header_block(infile, index)
LazyReadingHeader ==
    /\ lazy # Null
    /\ lazy.pc = "ReadingHeader"
    /\ LET v     == ReadHeaderBlock(Bytes(source), lazy.pos)
           fails == [lazy EXCEPT !.pc = "raised", !.exc = "IOError", !.pos = v.pos]
           ends  == [lazy EXCEPT !.pc = "done", !.pos = v.pos]
       IN  lazy' = CASE v.kind \in {"MalformedHeaderError", "eof"} ->
                          IF Len(lazy.frames) = 0 THEN fails ELSE ends
                     [] v.kind = "header" ->
                          [lazy EXCEPT !.pc = "HaveHeader", !.value = v, !.pos = v.pos]
                     [] OTHER ->
                          [lazy EXCEPT !.pc = "raised", !.exc = v.kind, !.pos = v.pos]
    /\ UNCHANGED <<source, pos, frames, incomplete_file, currentframe, value, pc, raised,
                   little_endian, newframe, lastcall>>

\* where self.file.read(self.blobsize) of _unpack leaves the stream
AfterBlobRead(f, bytes) == f.start[1] + Len(BlobRead(f, bytes))

\* lazy_iterator, a header block was read: the frame is built, its data are
\* unpacked and it is yielded
LazyHaveHeader ==
    /\ lazy # Null
    /\ lazy.pc = "HaveHeader"
    /\ Len(lazy.frames) < MaxAppended
    /\ LET h        == CreateHeader(lazy.value.header_block)
           text     == DictGet(h.header, DictGet(h.capsHeader, K_SIZE))
           blobsize == IF lazy.value.binary_size # None THEN Some(lazy.value.binary_size)
                       ELSE IF DictHas(h.capsHeader, K_SIZE) /\ NiceIntOk(text)
                       THEN Some(NiceInt(text))
                       ELSE lazy.blobsize
           r        == ExtractHeaderMetadata(
                           [EdfFrame(Len(lazy.frames)) EXCEPT
                               !.file = Some("infile"), !.header = h.header],
                           h.capsHeader, little_endian)
           f        == [r.frame EXCEPT !.start = Some(lazy.pos), !.blobsize = blobsize]
           u        == Unpack(f, Bytes(source), fileenv)
       IN  lazy' = IF r.exc # "" THEN [lazy EXCEPT !.pc = "raised", !.exc = r.exc]
                   ELSE IF blobsize = Null
                   THEN [lazy EXCEPT !.pc = "raised", !.exc = "UnboundLocalError"]
                   ELSE IF u.ret.exc # ""
                   THEN [lazy EXCEPT !.pc = "raised", !.exc = "Exception",
                                     !.blobsize = blobsize,
                                     !.pos = AfterBlobRead(f, Bytes(source))]
                   ELSE [lazy EXCEPT !.pc = "ReadingHeader",
                                     !.blobsize = blobsize,
                                     !.pos = AfterBlobRead(f, Bytes(source)),
                                     !.frames = Append(lazy.frames, u.frame)]
    /\ UNCHANGED <<source, pos, frames, incomplete_file, currentframe, value, pc, raised,
                   little_endian, newframe, lastcall>>

NextLazy ==
    \/ (pc = "idle" /\ \E src \in LazySources : Read(src))
           /\ UNCHANGED <<codecvars, magicvars, openvars, datavars>>
    \/ ReadingHeader /\ UNCHANGED <<codecvars, magicvars, openvars, datavars>>
    \/ HaveHeader /\ UNCHANGED <<codecvars, magicvars, openvars, datavars>>
    \/ SkippingBlob /\ UNCHANGED <<codecvars, magicvars, openvars, datavars>>
    \/ LazyIterator /\ UNCHANGED <<codecvars, magicvars, openvars, datavars>>
    \/ LazyReadingHeader /\ UNCHANGED <<codecvars, magicvars, openvars, datavars>>
    \/ LazyHaveHeader /\ UNCHANGED <<codecvars, magicvars, openvars, datavars>>

SpecLazy == Init /\ [][NextLazy]_vars

-----------------------------------------------------------------------------
(* Properties of the lazy iterator *)

LazyEnded == lazy # Null /\ lazy.pc \in {"done", "raised"}

\* two frames agree in index, metadata, data start, blob size and incomplete flag
SameFrame(a, b) ==
    /\ a.index = b.index /\ a.header = b.header /\ a.start = b.start
    /\ a.blobsize = b.blobsize /\ a.incomplete_data = b.incomplete_data

\* the iterator yielded the frames of the directory
SameFrames ==
    /\ Len(lazy.frames) = Len(frames)
    /\ \A k \in 1..Len(frames) : SameFrame(lazy.frames[k], frames[k])

\* every frame was yielded with the data of its blob unpacked
YieldedAfterBlobRead ==
    lazy # Null => \A k \in 1..Len(lazy.frames) : lazy.frames[k].data # Null

\* C30: for every byte source lazy_iterator yields the frames of the directory
\* that _readheader builds, the same in number, order, metadata, data start,
\* blob size and incomplete flag, and fails on exactly the sources on which
\* the directory pass fails; a frame is yielded after the blob of the frame
\* before it was consumed
C30_LazySameAsDirectory ==
    LazyEnded =>
        /\ (lazy.exc # "") <=> (raised # "")
        /\ (lazy.exc = "" /\ raised = "") => SameFrames
        /\ YieldedAfterBlobRead

\* the two readers agree on the sources whose frames all declare an integer
\* size and have their whole blob
LazySameWhenComplete ==
    (LazyEnded /\ ~incomplete_file
     /\ \A k \in 1..Len(source.frames) : source.frames[k].size \in {"4", "dup"})
        => /\ (lazy.exc # "") <=> (raised # "")
           /\ (lazy.exc = "" /\ raised = "") => SameFrames

\* a header without size: the directory pass builds the frame and the iterator fails
LazyFailsWithoutSize ==
    /\ LazyEnded /\ raised = "" /\ Len(frames) = 1
    /\ lazy.exc = "UnboundLocalError"

\* a blob cut short: the directory flags the frame and the iterator does not
LazyUnflaggedTruncation ==
    /\ LazyEnded /\ raised = "" /\ lazy.exc = ""
    /\ Len(frames) = 1 /\ Len(lazy.frames) = 1
    /\ frames[1].incomplete_data /\ ~lazy.frames[1].incomplete_data

====
